---- MODULE Spec2Model ----
(***************************************************************************)
(* State-machine model of the rotary-encoder-embedded decoding strategies: *)
(* the full-step table (full_step.rs), the quadrature table with a         *)
(* threshold counter (quadrature.rs), the shift-register edge decoder      *)
(* (standard.rs), the debounced half-step table (debounced.rs) and the     *)
(* velocity estimators (angular_velocity.rs, angular.rs, lib.rs).          *)
(*                                                                         *)
(* Every strategy is an independent struct, so each has its own            *)
(* specification over its own variables; the variables of the other        *)
(* strategies keep their constructed values.                               *)
(***************************************************************************)
EXTENDS Integers, Sequences, FiniteSets, TLC

VARIABLES
    \* RotaryEncoder<FullStepMode> (full_step.rs)
    fs_table_state,     \* mode.table_state: u8
    fs_direction,       \* direction
    fs_samples,         \* history: pin_state of every update since construction
    fs_dirs             \* history: direction stored by every update

VARIABLES
    \* the build profile: "on" when integer overflow panics (debug builds,
    \* overflow-checks = true), "off" when it wraps (release builds); it is
    \* "unobserved" until the first overflow shows which of the two it is
    overflow_checks

VARIABLES
    \* RotaryEncoder<QuadratureTableMode> (quadrature.rs)
    q_prev_state,       \* mode.prev_state: u8
    q_threshold,        \* mode.threshold: u8
    q_count,            \* mode.count: i8
    q_result,           \* what the last update returned ("Panic": it panicked)
    q_panicked,         \* an update has panicked; the program has stopped
    q_dt, q_clk,        \* history: the levels the last update read
    q_last_prev,        \* history: prev_state before the last update (-1: no update yet)
    q_last_count,       \* history: count before the last update
    q_run,              \* history: number of updates so far, while all of them were
                        \*   valid pulses of one sense (-1: not so, or no longer tracked)
    q_sense,            \* history: the sense of that run (1 clockwise, -1 counter-clockwise)
    q_reports           \* history: number of non-None results during that run

VARIABLES
    \* RotaryEncoder<StandardMode> (standard.rs)
    std_pin_state,      \* mode.pin_state: [u8; 2], the DT and the CLK shift register
    std_result,         \* what the last update returned
    std_dt, std_clk,    \* history: the levels the last update read
    std_prev_dt, std_prev_clk,  \* history: the levels the update before it read
    std_updates         \* history: number of updates so far, counted up to 2

VARIABLES
    \* RotaryEncoder<DebouncedMode> (debounced.rs)
    db_table_state,             \* mode.table_state: u8
    db_last_update_millis,      \* mode.last_update_millis: u64
    db_debounce_duration_millis,\* mode.debounce_duration_millis: u16
    db_decay,                   \* mode.decay: f32, in steps of 1/DecayScale
    db_decay_factor,            \* mode.decay_factor: f32, per second
    db_decay_increment,         \* mode.decay_increment: f32, in steps of 1/DecayScale
    db_direction,               \* direction
    db_panicked,                \* an update has panicked; the program has stopped
    db_pins,                    \* history: pin_state the last update read (-1: none yet)
    db_millis,                  \* history: the timestamp the last update was given
    db_mono,                    \* history: the timestamps so far were non-decreasing
    db_raw,                     \* history: the direction the table gave the last update
    db_last_report,             \* history: timestamp of the last update that reported
                                \*   a direction (-1: none yet)
    db_reports,                 \* history: number of reports so far, counted up to 2
    db_seq,                     \* history: parity of the number of updates so far
    det_phase,                  \* history: line changes of a clean detent seen so far (0..4)
    det_sense,                  \* history: its sense (1 clockwise, -1 counter-clockwise)
    det_reports,                \* history: directions reported during it
    det_dir_ok                  \* history: each of them matched its sense

VARIABLES
    \* the velocity estimator under construction
    estimator,              \* source file of the estimator that was constructed
    velocity,               \* velocity: f32, in steps of 1/VelScale
    velocity_inc_factor,    \* velocity_inc_factor: f32, in the same steps
    velocity_dec_factor,    \* velocity_dec_factor: f32, in the same steps
    velocity_action_ms,     \* velocity_action_ms
    previous_time,          \* previous_time / previous_time_millis
    av_pin_state,           \* AngularVelocityMode.pin_state, the PIN_MASK bits of each
    inner_transition,       \* inner.transition, its low four bits
    inner_pos_calc,         \* inner.pos_calc: i8
    vel_direction,          \* direction / inner.direction
    vel_now,                \* history: timestamp passed to the last update
    vel_last_detect,        \* history: timestamp of the last update that detected a
                            \*   direction (-1: none yet)
    vel_gap,                \* history: when the last call was an update that detected a
                            \*   direction after an earlier one, the time between the
                            \*   two; otherwise -1
    vel_clamp,              \* history: "ceil" / "floor" when the last call cut the
                            \*   velocity back to a limit, otherwise "none"
    vel_seq                 \* history: parity of the number of updates so far

fsVars == <<fs_table_state, fs_direction, fs_samples, fs_dirs>>

qVars == <<q_prev_state, q_threshold, q_count, q_result, q_panicked, q_dt, q_clk,
           q_last_prev, q_last_count, q_run, q_sense, q_reports>>

stdVars == <<std_pin_state, std_result, std_dt, std_clk, std_prev_dt, std_prev_clk,
             std_updates>>

dbVars == <<db_table_state, db_last_update_millis, db_debounce_duration_millis,
            db_decay, db_decay_factor, db_decay_increment, db_direction, db_panicked,
            db_pins, db_millis, db_mono, db_raw, db_last_report, db_reports, db_seq,
            det_phase, det_sense, det_reports, det_dir_ok>>

VARIABLES
    \* RotaryEncoder (lib.rs)
    enc_pos_calc,       \* pos_calc: i8
    enc_transition,     \* transition, its low four bits
    enc_sensitivity,    \* sensitivity as i8
    enc_direction,      \* direction
    enc_panicked,       \* an update panicked on an overflow
    enc_delta,          \* history: STATES[index] of the last update
    enc_seq             \* history: parity of the number of updates so far

VARIABLES
    \* the watch on a forward and reverse traversal
    rt_strategy,        \* the strategy that is updated: "full_step" or "quadrature"
    rt_phase,           \* "before" the run, "forward" in it, in its "reverse", "back"
                        \*   at the starting levels, "off" once the samples leave it
    rt_start,           \* the strategy's state before the run
    rt_s0,              \* the levels (dt<<1 | clk) before the run
    rt_stack,           \* the samples of the run that are not yet undone
    rt_n,               \* the length n of the run
    rt_reported,        \* an update of the traversal reported a direction
    rt_single,          \* every sample so far differed from the one before it in
                        \*   at most one line
    rt_last             \* the last sample (dt<<1 | clk)

VARIABLES
    \* jitter fed to the quadrature mode
    jit_pair,           \* the two adjacent states (dt | clk<<1) the lines alternate between
    jit_i               \* which of the two the next sample is

velVars == <<estimator, velocity, velocity_inc_factor, velocity_dec_factor,
             velocity_action_ms, previous_time, av_pin_state, inner_transition,
             inner_pos_calc, vel_direction, vel_now, vel_last_detect, vel_gap, vel_clamp,
             vel_seq>>

encVars == <<enc_pos_calc, enc_transition, enc_sensitivity, enc_direction, enc_panicked,
             enc_delta, enc_seq>>

rtVars == <<rt_strategy, rt_phase, rt_start, rt_s0, rt_stack, rt_n, rt_reported,
            rt_single, rt_last>>

VARIABLES
    in_use              \* the strategy the program was built with, where a
                        \*   specification lets it be one of several

jitVars == <<jit_pair, jit_i>>

vars == <<overflow_checks, fsVars, qVars, stdVars, dbVars, velVars, encVars, rtVars,
          jitVars, in_use>>

(***************************************************************************)
(* Shared vocabulary                                                       *)
(***************************************************************************)

\* enum Direction
Direction == {"None", "Clockwise", "Anticlockwise"}

\* What InputPin::is_high() can return: Ok(true), Ok(false) or Err(_).
PinReads == {"high", "low", "err"}

UnwrapOrDefault_ErrKeepsHigh(r) == IF r = "low" THEN 0 ELSE 1

\* is_high().unwrap_or_default() as u8: an Err reads as false.
UnwrapOrDefault(r) == IF r = "high" THEN 1 ELSE 0

\* dt_state << 1 | clk_state
PinState(dt_state, clk_state) == dt_state * 2 + clk_state

\* The index taken with the direction flags left in.
AndLowNibble_KeepsFlags(x) == x % 64

\* x & 0x0F and x & 0x30 on a u8
AndLowNibble(x) == x % 16
AndDirMask(x) == ((x \div 16) % 4) * 16

(***************************************************************************)
(* table/mod.rs, table/full.rs                                             *)
(***************************************************************************)
DIR_CW == 16
DIR_CCW == 32

R_START == 0
F_CW_FINAL == 1
F_CW_BEGIN == 2
F_CW_NEXT == 3
F_CCW_BEGIN == 4
F_CCW_FINAL == 5
F_CCW_NEXT == 6

\* The table that gives up a clockwise detent when the lines step back
\* from 00 to 01.
STATE_TABLE_FULL_STEPS_BounceResets ==
    << <<R_START,    F_CW_BEGIN,  F_CCW_BEGIN, R_START>>,
       <<F_CW_NEXT,  R_START,     F_CW_FINAL,  R_START + DIR_CW>>,
       <<F_CW_NEXT,  F_CW_BEGIN,  R_START,     R_START>>,
       <<F_CW_NEXT,  R_START,     F_CW_FINAL,  R_START>>,
       <<F_CCW_NEXT, R_START,     F_CCW_BEGIN, R_START>>,
       <<F_CCW_NEXT, F_CCW_FINAL, R_START,     R_START + DIR_CCW>>,
       <<F_CCW_NEXT, F_CCW_FINAL, F_CCW_BEGIN, R_START>> >>

\* The table that takes the jump from F_CW_NEXT to both lines high for the
\* end of the detent.
STATE_TABLE_FULL_STEPS_JumpReports ==
    << <<R_START,    F_CW_BEGIN,  F_CCW_BEGIN, R_START>>,
       <<F_CW_NEXT,  R_START,     F_CW_FINAL,  R_START + DIR_CW>>,
       <<F_CW_NEXT,  F_CW_BEGIN,  R_START,     R_START>>,
       <<F_CW_NEXT,  F_CW_BEGIN,  F_CW_FINAL,  R_START + DIR_CW>>,
       <<F_CCW_NEXT, R_START,     F_CCW_BEGIN, R_START>>,
       <<F_CCW_NEXT, F_CCW_FINAL, R_START,     R_START + DIR_CCW>>,
       <<F_CCW_NEXT, F_CCW_FINAL, F_CCW_BEGIN, R_START>> >>

\* The table with the flags on the entries that lead into the FINAL rows.
STATE_TABLE_FULL_STEPS_FlagOnFinal ==
    << <<R_START,    F_CW_BEGIN,  F_CCW_BEGIN, R_START>>,
       <<F_CW_NEXT,  R_START,     F_CW_FINAL,  R_START>>,
       <<F_CW_NEXT,  F_CW_BEGIN,  R_START,     R_START>>,
       <<F_CW_NEXT,  F_CW_BEGIN,  F_CW_FINAL + DIR_CW, R_START>>,
       <<F_CCW_NEXT, R_START,     F_CCW_BEGIN, R_START>>,
       <<F_CCW_NEXT, F_CCW_FINAL, R_START,     R_START>>,
       <<F_CCW_NEXT, F_CCW_FINAL + DIR_CCW, F_CCW_BEGIN, R_START>> >>

\* The table with the clockwise flag missing from the F_CW_FINAL row.
STATE_TABLE_FULL_STEPS_NoCwFlag ==
    << <<R_START,    F_CW_BEGIN,  F_CCW_BEGIN, R_START>>,
       <<F_CW_NEXT,  R_START,     F_CW_FINAL,  R_START>>,
       <<F_CW_NEXT,  F_CW_BEGIN,  R_START,     R_START>>,
       <<F_CW_NEXT,  F_CW_BEGIN,  F_CW_FINAL,  R_START>>,
       <<F_CCW_NEXT, R_START,     F_CCW_BEGIN, R_START>>,
       <<F_CCW_NEXT, F_CCW_FINAL, R_START,     R_START + DIR_CCW>>,
       <<F_CCW_NEXT, F_CCW_FINAL, F_CCW_BEGIN, R_START>> >>

\* Rows are states, columns the pin_state 00, 01, 10, 11 (1-based here).
STATE_TABLE_FULL_STEPS ==
    << <<R_START,    F_CW_BEGIN,  F_CCW_BEGIN, R_START>>,            \* R_START
       <<F_CW_NEXT,  R_START,     F_CW_FINAL,  R_START + DIR_CW>>,   \* F_CW_FINAL
       <<F_CW_NEXT,  F_CW_BEGIN,  R_START,     R_START>>,            \* F_CW_BEGIN
       <<F_CW_NEXT,  F_CW_BEGIN,  F_CW_FINAL,  R_START>>,            \* F_CW_NEXT
       <<F_CCW_NEXT, R_START,     F_CCW_BEGIN, R_START>>,            \* F_CCW_BEGIN
       <<F_CCW_NEXT, F_CCW_FINAL, R_START,     R_START + DIR_CCW>>,  \* F_CCW_FINAL
       <<F_CCW_NEXT, F_CCW_FINAL, F_CCW_BEGIN, R_START>> >>          \* F_CCW_NEXT

\* match dir { DIR_CW => Clockwise, DIR_CCW => Anticlockwise, _ => None }
MatchDir(dir) ==
    IF dir = DIR_CW THEN "Clockwise"
    ELSE IF dir = DIR_CCW THEN "Anticlockwise"
    ELSE "None"

(***************************************************************************)
(* full_step.rs                                                            *)
(***************************************************************************)

\* Longest sample history kept for the full-step encoder.
MaxTrace == 7

\* STATE_TABLE_FULL_STEPS[table_state as usize & 0x0F][pin_state as usize]
FullStepLookup(table_state, pin_state) ==
    STATE_TABLE_FULL_STEPS[AndLowNibble(table_state) + 1][pin_state + 1]

\* into_fullstep_mode
FullStepInit ==
    /\ fs_table_state = 0
    /\ fs_direction = "None"
    /\ fs_samples = <<>>
    /\ fs_dirs = <<>>

\* RotaryEncoder<FullStepMode>::update
FullStepUpdate(dt_read, clk_read) ==
    LET dt_state == UnwrapOrDefault(dt_read)
        clk_state == UnwrapOrDefault(clk_read)
        pin_state == PinState(dt_state, clk_state)
        next_state == FullStepLookup(fs_table_state, pin_state)
        dir == AndDirMask(next_state)
    IN  /\ Len(fs_samples) < MaxTrace
        /\ fs_table_state' = next_state
        /\ fs_direction' = MatchDir(dir)
        /\ fs_samples' = Append(fs_samples, pin_state)
        /\ fs_dirs' = Append(fs_dirs, MatchDir(dir))

FullStepNext ==
    /\ \E dt_read \in PinReads, clk_read \in PinReads : FullStepUpdate(dt_read, clk_read)
    /\ UNCHANGED <<overflow_checks, qVars, stdVars, dbVars, velVars, encVars, rtVars, jitVars,
                   in_use>>

(***************************************************************************)
(* quadrature.rs                                                           *)
(***************************************************************************)

\* The thresholds the model constructs the mode with: the default and small
\* values, and the values around the range of the i8 count.
Thresholds == 0 .. 255

\* The table with the skipped-state transition 00 -> 11 counted as a pulse.
QUAD_TABLE_SkipCounts ==
    << 0, 1, -1, 1,
       -1, 0, 0, 1,
       1, 0, 0, -1,
       0, -1, 1, 0 >>

\* Index = (prev_state << 2) | curr_state (1-based here).
QUAD_TABLE ==
    << 0,       \* 00 -> 00
       1,       \* 00 -> 01  = CW
       -1,      \* 00 -> 10  = CCW
       0,       \* 00 -> 11  = invalid (skipped state)
       -1,      \* 01 -> 00  = CCW
       0,       \* 01 -> 01
       0,       \* 01 -> 10  = invalid
       1,       \* 01 -> 11  = CW
       1,       \* 10 -> 00  = CW
       0,       \* 10 -> 01  = invalid
       0,       \* 10 -> 10
       -1,      \* 10 -> 11  = CCW
       0,       \* 11 -> 00  = invalid
       -1,      \* 11 -> 01  = CCW
       1,       \* 11 -> 10  = CW
       0 >>     \* 11 -> 11

\* (dt as u8) | ((clk as u8) << 1)
QuadCurr(dt, clk) == dt + 2 * clk

\* QUAD_TABLE[((self.prev_state << 2) | curr) as usize]
QuadDelta(prev_state, curr) == QUAD_TABLE[(prev_state * 4 + curr) + 1]

\* prev_state left alone when the transition carries no delta.
QuadNextPrevState_SkipOnZero(prev_state, curr, delta) ==
    IF delta = 0 THEN prev_state ELSE curr

\* self.prev_state = curr
QuadNextPrevState(prev_state, curr, delta) == curr

\* What an arithmetic overflow does in the build at hand.
OverflowOutcomes(overflows) ==
    IF ~overflows THEN {"none"}
    ELSE IF overflow_checks = "on" THEN {"panic"}
    ELSE IF overflow_checks = "off" THEN {"wrap"}
    ELSE {"panic", "wrap"}

\* The build profile as known after an operation with the given outcome.
ObservedChecks(outcome) ==
    IF outcome = "panic" THEN "on"
    ELSE IF outcome = "wrap" THEN "off"
    ELSE overflow_checks

\* An i8 result outside -128..127 (the addition overflowed).
OverflowsI8(x) == x > 127 \/ x < -128

\* Two's-complement wrap of an integer into i8.
WrapI8(x) == ((x + 128) % 256) - 128

\* self.count.abs() as u8; i8::MIN.abs() overflows and wraps to i8::MIN,
\* which as u8 is 128.
AbsAsU8(count) == IF count < 0 THEN -count ELSE count

\* self.count.abs() as u8 >= self.threshold
QuadReaches(count, threshold) == AbsAsU8(count) >= threshold

\* if self.count > 0 { Clockwise } else { Anticlockwise }
QuadDir(count) == IF count > 0 THEN "Clockwise" ELSE "Anticlockwise"

\* QuadratureTableMode::new(threshold), through into_quadrature_table_mode
QuadInit ==
    /\ q_prev_state = 0
    /\ q_count = 0
    /\ q_threshold \in Thresholds
    /\ q_result = "None"
    /\ q_panicked = FALSE
    /\ q_dt = 0
    /\ q_clk = 0
    /\ q_last_prev = -1
    /\ q_last_count = 0
    /\ q_run = 0
    /\ q_sense = 0
    /\ q_reports = 0

\* The quadrature mode as constructed by Default and never used.
QuadIdle ==
    /\ q_prev_state = 0
    /\ q_count = 0
    /\ q_threshold = 1
    /\ q_result = "None"
    /\ q_panicked = FALSE
    /\ q_dt = 0
    /\ q_clk = 0
    /\ q_last_prev = -1
    /\ q_last_count = 0
    /\ q_run = 0
    /\ q_sense = 0
    /\ q_reports = 0

\* History of the run of same-sense valid pulses since construction.
QuadTrackRun(delta, result) ==
    IF q_run >= 0 /\ delta # 0 /\ (q_run = 0 \/ q_sense = delta)
          /\ q_run <= q_threshold
    THEN /\ q_run' = q_run + 1
         /\ q_sense' = delta
         /\ q_reports' = q_reports + (IF result = "None" THEN 0 ELSE 1)
    ELSE /\ q_run' = -1
         /\ q_sense' = 0
         /\ q_reports' = 0

\* RotaryEncoder<QuadratureTableMode>::update and QuadratureTableMode::update
QuadUpdate(dt_read, clk_read) ==
    LET dt == UnwrapOrDefault(dt_read)
        clk == UnwrapOrDefault(clk_read)
        curr == QuadCurr(dt, clk)
        delta == QuadDelta(q_prev_state, curr)
        sum == q_count + delta
        count == WrapI8(sum)
        reached == QuadReaches(count, q_threshold)
    IN  /\ ~q_panicked
        \* count += delta overflows past i8, count.abs() overflows on i8::MIN
        /\ \E outcome \in OverflowOutcomes(OverflowsI8(sum) \/ sum = -128) :
            LET panics == outcome = "panic"
                result == IF panics THEN "Panic"
                          ELSE IF reached THEN QuadDir(count)
                          ELSE "None"
            IN  /\ overflow_checks' = ObservedChecks(outcome)
                /\ q_panicked' = panics
                /\ q_count' = IF panics /\ OverflowsI8(sum) THEN q_count
                              ELSE IF panics THEN sum
                              ELSE IF reached THEN 0
                              ELSE count
                /\ q_result' = result
                /\ QuadTrackRun(delta, result)
        /\ q_dt' = dt
        /\ q_clk' = clk
        /\ q_last_prev' = q_prev_state
        /\ q_last_count' = q_count
        /\ q_prev_state' = QuadNextPrevState(q_prev_state, curr, delta)
        /\ UNCHANGED q_threshold

QuadNext ==
    /\ \E dt_read \in PinReads, clk_read \in PinReads : QuadUpdate(dt_read, clk_read)
    /\ UNCHANGED <<fsVars, stdVars, dbVars, velVars, encVars, rtVars, jitVars,
                   in_use>>

(***************************************************************************)
(* standard.rs                                                             *)
(***************************************************************************)
PIN_MASK == 3
PIN_EDGE == 2

\* (reg << 1) | bit on a u8: the top bit is shifted out.
ShiftIn(reg, bit) == ((reg * 2) % 256) + bit

\* reg & PIN_MASK
AndPinMask(reg) == reg % (PIN_MASK + 1)

\* The decoder looking for the rising pattern 01 instead of the falling 10.
StandardDir_RisingEdge(a, b) ==
    IF a = 1 /\ b = 0 THEN "Anticlockwise"
    ELSE IF b = 1 /\ a = 0 THEN "Clockwise"
    ELSE "None"

\* if a == PIN_EDGE && b == 0x00 { Anticlockwise }
\* else if b == PIN_EDGE && a == 0x00 { Clockwise }
StandardDir(a, b) ==
    IF a = PIN_EDGE /\ b = 0 THEN "Anticlockwise"
    ELSE IF b = PIN_EDGE /\ a = 0 THEN "Clockwise"
    ELSE "None"

\* StandardMode::new, through into_standard_mode: pin_state = [0xFF, 2]
StandardInit ==
    /\ std_pin_state = <<255, 2>>
    /\ std_result = "None"
    /\ std_dt = 0
    /\ std_clk = 0
    /\ std_prev_dt = 0
    /\ std_prev_clk = 0
    /\ std_updates = 0

\* RotaryEncoder<StandardMode>::update and StandardMode::update
StandardUpdate(dt_read, clk_read) ==
    LET dt_value == UnwrapOrDefault(dt_read)
        clk_value == UnwrapOrDefault(clk_read)
        reg0 == ShiftIn(std_pin_state[1], dt_value)
        reg1 == ShiftIn(std_pin_state[2], clk_value)
        a == AndPinMask(reg0)
        b == AndPinMask(reg1)
    IN  /\ std_pin_state' = <<reg0, reg1>>
        /\ std_result' = StandardDir(a, b)
        /\ std_prev_dt' = std_dt
        /\ std_prev_clk' = std_clk
        /\ std_dt' = dt_value
        /\ std_clk' = clk_value
        /\ std_updates' = IF std_updates < 2 THEN std_updates + 1 ELSE 2

StandardNext ==
    /\ \E dt_read \in PinReads, clk_read \in PinReads : StandardUpdate(dt_read, clk_read)
    /\ UNCHANGED <<overflow_checks, fsVars, qVars, dbVars, velVars, encVars, rtVars, jitVars,
                   in_use>>

(***************************************************************************)
(* table/half.rs, debounced.rs                                             *)
(***************************************************************************)
H_CCW_BEGIN == 1
H_CW_BEGIN == 2
H_START_M == 3
H_CW_BEGIN_M == 4
H_CCW_BEGIN_M == 5

\* Rows are states, columns the pin_state 00, 01, 10, 11 (1-based here).
STATE_TABLE_HALF_STEPS ==
    << <<H_START_M,           H_CW_BEGIN,    H_CCW_BEGIN,  R_START>>,            \* R_START (00)
       <<H_START_M + DIR_CCW, R_START,       H_CCW_BEGIN,  R_START>>,            \* H_CCW_BEGIN
       <<H_START_M + DIR_CW,  H_CW_BEGIN,    R_START,      R_START>>,            \* H_CW_BEGIN
       <<H_START_M,           H_CCW_BEGIN_M, H_CW_BEGIN_M, R_START>>,            \* H_START_M (11)
       <<H_START_M,           H_START_M,     H_CW_BEGIN_M, R_START + DIR_CW>>,   \* H_CW_BEGIN_M
       <<H_START_M,           H_CCW_BEGIN_M, H_START_M,    R_START + DIR_CCW>> >> \* H_CCW_BEGIN_M

DEFAULT_DEBOUNCE_DURATION_MILLIS == 60

\* decay is kept in steps of 1/DecayScale: 10 stands for 1.0.
DecayScale == 10

\* DEFAULT_DECAY_FACTOR = 2.0 per second
DEFAULT_DECAY_FACTOR == 2

\* DEFAULT_DECAY_INCREMENT = 0.2, in steps of 1/DecayScale
DEFAULT_DECAY_INCREMENT == 2

\* The largest timestamp an update is given.
MaxMillis == 6

\* The durations set_debounce_duration_millis is called with.
Durations == {0, 3}

\* The sampling periods tick is called with, in tenths of a second, so that
\* decay_factor * dt is a whole number of decay steps.
TickDts == {0, 1, 3}

\* The values set_decay_factor is called with, per second.
DecayFactors == {0, DEFAULT_DECAY_FACTOR}

\* The values set_decay_increment is called with, in steps of 1/DecayScale.
DecayIncrements == {DEFAULT_DECAY_INCREMENT, 7}

\* STATE_TABLE_HALF_STEPS[table_state as usize & 0x0F][pin_state as usize]
HalfStepLookup(table_state, pin_state) ==
    STATE_TABLE_HALF_STEPS[AndLowNibble(table_state) + 1][pin_state + 1]

\* debounce_duration_millis as u64 - (debounce_duration_millis as f32 * decay) as u64:
\* the cast truncates the product toward zero.
DebounceWindow(duration, decay) == duration - ((duration * decay) \div DecayScale)

\* The window test accepting a hit that arrives exactly at the window's end.
DebounceElapsed_Inclusive(elapsed, window) == elapsed >= window

\* (millis - last_update_millis) > window
DebounceElapsed(elapsed, window) == elapsed > window

\* The accepted step leaving the table where the half step put it.
DebouncedAcceptedState_NoReset(next_state) == next_state

\* self.mode.table_state = 0 on an accepted step
DebouncedAcceptedState(next_state) == 0

\* The increment without the cap at 1.0.
DecayAfterStep_NoCap(decay, increment) == decay + increment

\* (decay + decay_increment).min(1.0)
DecayAfterStep(decay, increment) ==
    IF decay + increment > DecayScale THEN DecayScale ELSE decay + increment

\* (decay - decay_factor * dt).max(0.0)
DecayAfterTick(decay, factor, dt) ==
    IF decay - factor * dt < 0 THEN 0 ELSE decay - factor * dt

\* into_debounced_mode
DebouncedInit ==
    /\ db_table_state = 0
    /\ db_last_update_millis = 0
    /\ db_decay = 0
    /\ db_decay_factor = DEFAULT_DECAY_FACTOR
    /\ db_debounce_duration_millis = DEFAULT_DEBOUNCE_DURATION_MILLIS
    /\ db_decay_increment = DEFAULT_DECAY_INCREMENT
    /\ db_direction = "None"
    /\ db_panicked = FALSE
    /\ db_pins = -1
    /\ db_millis = 0
    /\ db_mono = TRUE
    /\ db_raw = "None"
    /\ db_last_report = -1
    /\ db_reports = 0
    /\ db_seq = 0
    /\ det_phase = 0
    /\ det_sense = 0
    /\ det_reports = 0
    /\ det_dir_ok = TRUE

\* The direction a pulse of the given sense stands for.
SenseDir(sense) == IF sense = 1 THEN "Clockwise" ELSE "Anticlockwise"

\* The samples of a clean detent after its rest level 11, one per line change.
DetentSamples(sense) == IF sense = 1 THEN <<1, 0, 2, 3>> ELSE <<2, 0, 1, 3>>

\* History of the clean detent in progress: it starts in R_START with the
\* lines at rest and goes on while each update brings its next line change.
DetentTrack(pin_state, dir) ==
    LET n == IF dir = "None" THEN 0 ELSE 1
    IN  IF det_phase \in 1..3 /\ pin_state = DetentSamples(det_sense)[det_phase + 1]
        THEN /\ det_phase' = det_phase + 1
             /\ det_sense' = det_sense
             /\ det_reports' = det_reports + n
             /\ det_dir_ok' = (det_dir_ok /\ dir \in {"None", SenseDir(det_sense)})
        ELSE IF AndLowNibble(db_table_state) = R_START /\ db_pins \in {-1, 3}
                /\ pin_state \in {1, 2}
        THEN /\ det_phase' = 1
             /\ det_sense' = (IF pin_state = 1 THEN 1 ELSE -1)
             /\ det_reports' = n
             /\ det_dir_ok' = (dir = "None")
        ELSE /\ det_phase' = 0
             /\ det_sense' = 0
             /\ det_reports' = 0
             /\ det_dir_ok' = TRUE

\* RotaryEncoder<DebouncedMode>::tick
DebouncedTick(dt) ==
    /\ ~db_panicked
    /\ db_decay' = DecayAfterTick(db_decay, db_decay_factor, dt)
    /\ UNCHANGED <<db_table_state, db_last_update_millis, db_debounce_duration_millis,
                   db_decay_factor, db_decay_increment, db_direction, db_panicked,
                   db_pins, db_millis, db_mono, db_raw, db_last_report, db_reports,
                   db_seq, det_phase, det_sense, det_reports, det_dir_ok>>

\* RotaryEncoder<DebouncedMode>::set_debounce_duration_millis
DebouncedSetDuration(duration) ==
    /\ ~db_panicked
    /\ db_debounce_duration_millis' = duration
    /\ UNCHANGED <<db_table_state, db_last_update_millis, db_decay,
                   db_decay_factor, db_decay_increment, db_direction, db_panicked,
                   db_pins, db_millis, db_mono, db_raw, db_last_report, db_reports,
                   db_seq, det_phase, det_sense, det_reports, det_dir_ok>>

\* RotaryEncoder<DebouncedMode>::set_decay_factor
DebouncedSetDecayFactor(decay_factor) ==
    /\ ~db_panicked
    /\ db_decay_factor' = decay_factor
    /\ UNCHANGED <<db_table_state, db_last_update_millis, db_debounce_duration_millis,
                   db_decay, db_decay_increment, db_direction, db_panicked,
                   db_pins, db_millis, db_mono, db_raw, db_last_report, db_reports,
                   db_seq, det_phase, det_sense, det_reports, det_dir_ok>>

\* RotaryEncoder<DebouncedMode>::set_decay_increment
DebouncedSetDecayIncrement(decay_increment) ==
    /\ ~db_panicked
    /\ db_decay_increment' = decay_increment
    /\ UNCHANGED <<db_table_state, db_last_update_millis, db_debounce_duration_millis,
                   db_decay, db_decay_factor, db_direction, db_panicked,
                   db_pins, db_millis, db_mono, db_raw, db_last_report, db_reports,
                   db_seq, det_phase, det_sense, det_reports, det_dir_ok>>

\* The update that stamps last_update_millis on every call that does not panic.
DebouncedUpdate_StampsEveryUpdate(dt_read, clk_read, millis) ==
    LET dt_state == UnwrapOrDefault(dt_read)
        clk_state == UnwrapOrDefault(clk_read)
        pin_state == PinState(dt_state, clk_state)
        next_state == HalfStepLookup(db_table_state, pin_state)
        direction == MatchDir(AndDirMask(next_state))
        \* millis - last_update_millis on u64, evaluated only after a raw hit:
        \* below zero it panics, or wraps to a value larger than any window
        underflow == direction # "None" /\ millis < db_last_update_millis
        window == DebounceWindow(db_debounce_duration_millis, db_decay)
        accepted == /\ direction # "None"
                    /\ \/ underflow
                       \/ DebounceElapsed(millis - db_last_update_millis, window)
    IN  /\ ~db_panicked
        /\ \E outcome \in OverflowOutcomes(underflow) :
            LET panics == outcome = "panic"
                reported == IF accepted /\ ~panics THEN direction ELSE "None"
            IN  /\ overflow_checks' = ObservedChecks(outcome)
                /\ db_panicked' = panics
                /\ IF panics
                   THEN /\ db_table_state' = next_state
                        /\ UNCHANGED <<db_decay, db_last_update_millis, db_direction,
                                       db_last_report, db_reports>>
                   ELSE IF accepted
                   THEN /\ db_decay' = DecayAfterStep(db_decay, db_decay_increment)
                        /\ db_table_state' = DebouncedAcceptedState(next_state)
                        /\ db_last_update_millis' = millis
                        /\ db_direction' = direction
                        /\ db_last_report' = millis
                        /\ db_reports' = (IF db_reports < 2 THEN db_reports + 1 ELSE 2)
                   ELSE /\ db_table_state' = next_state
                        /\ db_direction' = "None"
                        /\ db_last_update_millis' = millis
                        /\ UNCHANGED <<db_decay, db_last_report, db_reports>>
                /\ DetentTrack(pin_state, reported)
        /\ db_pins' = pin_state
        /\ db_millis' = millis
        /\ db_mono' = (db_mono /\ millis >= db_millis)
        /\ db_raw' = direction
        /\ db_seq' = 1 - db_seq
        /\ UNCHANGED <<db_debounce_duration_millis, db_decay_factor, db_decay_increment>>

\* RotaryEncoder<DebouncedMode>::update
DebouncedUpdate(dt_read, clk_read, millis) ==
    LET dt_state == UnwrapOrDefault(dt_read)
        clk_state == UnwrapOrDefault(clk_read)
        pin_state == PinState(dt_state, clk_state)
        next_state == HalfStepLookup(db_table_state, pin_state)
        direction == MatchDir(AndDirMask(next_state))
        \* millis - last_update_millis on u64, evaluated only after a raw hit:
        \* below zero it panics, or wraps to a value larger than any window
        underflow == direction # "None" /\ millis < db_last_update_millis
        window == DebounceWindow(db_debounce_duration_millis, db_decay)
        accepted == /\ direction # "None"
                    /\ \/ underflow
                       \/ DebounceElapsed(millis - db_last_update_millis, window)
    IN  /\ ~db_panicked
        /\ \E outcome \in OverflowOutcomes(underflow) :
            LET panics == outcome = "panic"
                reported == IF accepted /\ ~panics THEN direction ELSE "None"
            IN  /\ overflow_checks' = ObservedChecks(outcome)
                /\ db_panicked' = panics
                /\ IF panics
                   THEN /\ db_table_state' = next_state
                        /\ UNCHANGED <<db_decay, db_last_update_millis, db_direction,
                                       db_last_report, db_reports>>
                   ELSE IF accepted
                   THEN /\ db_decay' = DecayAfterStep(db_decay, db_decay_increment)
                        /\ db_table_state' = DebouncedAcceptedState(next_state)
                        /\ db_last_update_millis' = millis
                        /\ db_direction' = direction
                        /\ db_last_report' = millis
                        /\ db_reports' = (IF db_reports < 2 THEN db_reports + 1 ELSE 2)
                   ELSE /\ db_table_state' = next_state
                        /\ db_direction' = "None"
                        /\ UNCHANGED <<db_decay, db_last_update_millis, db_last_report,
                                       db_reports>>
                /\ DetentTrack(pin_state, reported)
        /\ db_pins' = pin_state
        /\ db_millis' = millis
        /\ db_mono' = (db_mono /\ millis >= db_millis)
        /\ db_raw' = direction
        /\ db_seq' = 1 - db_seq
        /\ UNCHANGED <<db_debounce_duration_millis, db_decay_factor, db_decay_increment>>

DebouncedNext ==
    \/ /\ \E dt_read \in PinReads, clk_read \in PinReads, millis \in 0..MaxMillis :
              DebouncedUpdate(dt_read, clk_read, millis)
       /\ UNCHANGED <<fsVars, qVars, stdVars, velVars, encVars, rtVars, jitVars,
                   in_use>>
    \/ /\ \E dt \in TickDts : DebouncedTick(dt)
       /\ UNCHANGED <<overflow_checks, fsVars, qVars, stdVars, velVars, encVars, rtVars, jitVars,
                   in_use>>
    \/ /\ \E duration \in Durations : DebouncedSetDuration(duration)
       /\ UNCHANGED <<overflow_checks, fsVars, qVars, stdVars, velVars, encVars, rtVars, jitVars,
                   in_use>>

(***************************************************************************)
(* Velocity estimators: RotaryEncoder<AngularVelocityMode>                 *)
(* (angular_velocity.rs), RotaryEncoderWithVelocity over u64 timestamps    *)
(* (angular.rs) and RotaryEncoderWithVelocity over NaiveDateTime (lib.rs). *)
(* One estimator is constructed; `estimator` names its source file.        *)
(* f32 velocities and factors are counted in steps of 1/VelScale.          *)
(* Timestamps are passed in non-decreasing order, as update documents.     *)
(***************************************************************************)

\* 1.0 in velocity steps.
VelScale == 100

DEFAULT_VELOCITY_INC_FACTOR == 20
DEFAULT_VELOCITY_DEC_FACTOR == 1
DEFAULT_VELOCITY_ACTION_MS == 25

\* The largest timestamp an update is given.
MaxTime == 1

\* The factors and windows the setters and the lib.rs constructor are given
\* (0.2 and 0.7; 0.01 and 0.5; 25 ms and 1 ms).
IncFactors == {DEFAULT_VELOCITY_INC_FACTOR, 70}
DecFactors == {DEFAULT_VELOCITY_DEC_FACTOR, 50}
ActionWindows == {DEFAULT_VELOCITY_ACTION_MS, 1}

\* lib.rs: Sensitivity::Default as i8.
SensitivityDefault == 2

\* lib.rs: STATES, indexed from 0.
STATES == <<0, -1, 1, 0, 1, 0, 0, -1, -1, 0, 0, 1, 0, 1, -1, 0>>

\* (dt_state << 1) | clk_state
InnerCurrent(dt_state, clk_state) == dt_state * 2 + clk_state

\* (transition << 2) | current.  Only transition & 0x0F is ever read, so the
\* model keeps the low four bits of the u8.
InnerTransition(transition, current) == ((transition * 4) % 16) + current

\* pos_calc + STATES[(transition & 0x0F) as usize]
InnerPosCalc(pos_calc, transition) == pos_calc + STATES[(transition % 16) + 1]

\* pos_calc == sensitivity || pos_calc == -sensitivity
InnerReaches(pos_calc, sensitivity) == pos_calc = sensitivity \/ pos_calc = -sensitivity

InnerDir(pos_calc, sensitivity) ==
    IF pos_calc = sensitivity THEN "Clockwise" ELSE "Anticlockwise"

\* angular_velocity.rs: the edge decoder on the two PIN_MASK bits of each
\* shift register.  Only pin_state & PIN_MASK is ever read, so the model
\* keeps those two bits of each u8.
AvShiftIn(reg, bit) == AndPinMask(ShiftIn(reg, bit))

AvDir_KeepLast(a, b) ==
    IF a = PIN_EDGE /\ b = 0 THEN "Anticlockwise"
    ELSE IF b = PIN_EDGE /\ a = 0 THEN "Clockwise"
    ELSE vel_direction

AvDir(a, b) ==
    IF a = PIN_EDGE /\ b = 0 THEN "Anticlockwise"
    ELSE IF b = PIN_EDGE /\ a = 0 THEN "Clockwise"
    ELSE "None"

\* velocity -= velocity_dec_factor, floored at 0.0
AvDecay(v, dec_factor) == IF v - dec_factor < 0 THEN 0 ELSE v - dec_factor

AngDecay(v, dec_factor) == IF v - dec_factor < 0 THEN 0 ELSE v - dec_factor

\* lib.rs floors the stored velocity at -1.0
LibDecay(v, dec_factor) == IF v - dec_factor < -VelScale THEN -VelScale ELSE v - dec_factor

\* The velocity after an update that detected a direction.
AvVelocityAfterStep_NoClamp(v, inc_factor, elapsed, action_ms) ==
    IF elapsed < action_ms /\ v < VelScale THEN v + inc_factor ELSE v

AvVelocityAfterStep_NoWindow(v, inc_factor, elapsed, action_ms) ==
    IF v < VelScale
    THEN (IF v + inc_factor > VelScale THEN VelScale ELSE v + inc_factor)
    ELSE v

AvVelocityAfterStep(v, inc_factor, elapsed, action_ms) ==
    IF elapsed < action_ms /\ v < VelScale
    THEN (IF v + inc_factor > VelScale THEN VelScale ELSE v + inc_factor)
    ELSE v

AngVelocityAfterStep(v, inc_factor, elapsed, action_ms) ==
    IF elapsed < action_ms /\ v < VelScale
    THEN (IF v + inc_factor > VelScale THEN VelScale ELSE v + inc_factor)
    ELSE v

\* lib.rs adds the factor and does not clamp
LibVelocityAfterStep(v, inc_factor, elapsed, action_ms) ==
    IF elapsed < action_ms /\ v < VelScale THEN v + inc_factor ELSE v

\* lib.rs velocity(): negative stored values read as 0.0
LibVelocity(v) == IF v < 0 THEN 0 ELSE v

\* State after construction with the given factors and window.
VelocityNew(which, inc_factor, dec_factor, action_ms) ==
    /\ estimator = which
    /\ velocity = 0
    /\ velocity_inc_factor = inc_factor
    /\ velocity_dec_factor = dec_factor
    /\ velocity_action_ms = action_ms
    /\ previous_time = 0
    /\ av_pin_state = <<AndPinMask(255), AndPinMask(2)>>
    /\ inner_transition = 0
    /\ inner_pos_calc = 0
    /\ vel_direction = "None"
    /\ vel_now = 0
    /\ vel_last_detect = -1
    /\ vel_gap = -1
    /\ vel_clamp = "none"
    /\ vel_seq = 0

\* into_angular_velocity_mode(); RotaryEncoderWithVelocity::new(dt, clk) of angular.rs
VelocityIdle ==
    VelocityNew("angular_velocity.rs", DEFAULT_VELOCITY_INC_FACTOR,
                DEFAULT_VELOCITY_DEC_FACTOR, DEFAULT_VELOCITY_ACTION_MS)

\* lib.rs: RotaryEncoderWithVelocity::new(dt, clk, inc, dec, action_ms); an
\* option left None is the default, which each set contains.
VelocityInit ==
    \/ \E which \in {"angular_velocity.rs", "angular.rs"} :
           VelocityNew(which, DEFAULT_VELOCITY_INC_FACTOR, DEFAULT_VELOCITY_DEC_FACTOR,
                       DEFAULT_VELOCITY_ACTION_MS)
    \/ \E inc_factor \in IncFactors, dec_factor \in DecFactors, action_ms \in ActionWindows :
           VelocityNew("lib.rs", inc_factor, dec_factor, action_ms)

\* History kept by an update called with current_time.
VelTrackUpdate(current_time, detected, clamp) ==
    /\ vel_now' = current_time
    /\ vel_gap' = (IF detected /\ vel_last_detect # -1
                   THEN current_time - vel_last_detect ELSE -1)
    /\ vel_last_detect' = (IF detected THEN current_time ELSE vel_last_detect)
    /\ vel_clamp' = clamp
    /\ vel_seq' = 1 - vel_seq

\* History kept by a call that is not an update.
VelTrackOther(clamp) ==
    /\ vel_gap' = -1
    /\ vel_clamp' = clamp
    /\ UNCHANGED <<vel_now, vel_last_detect, vel_seq>>

\* lib.rs RotaryEncoder::update, the decoder inside both RotaryEncoderWithVelocity:
\* the fields it stores and the direction it reports.  With the constructor's
\* sensitivity pos_calc stays within -2..2, far from the i8 range.
InnerUpdate(dt_read, clk_read) ==
    LET dt_state == UnwrapOrDefault(dt_read)
        clk_state == UnwrapOrDefault(clk_read)
        current == InnerCurrent(dt_state, clk_state)
        transition == InnerTransition(inner_transition, current)
        pos_calc == InnerPosCalc(inner_pos_calc, transition)
        reached == InnerReaches(pos_calc, SensitivityDefault)
    IN  [transition |-> transition,
         pos_calc |-> IF reached THEN 0 ELSE pos_calc,
         direction |-> IF reached THEN InnerDir(pos_calc, SensitivityDefault) ELSE "None"]

\* "ceil" when an update added the factor and cut the sum back to 1.0.
CutAtOne(v, inc_factor, after) ==
    IF after # v /\ v + inc_factor > VelScale THEN "ceil" ELSE "none"

\* angular_velocity.rs: update(current_time_millis)
AvUpdate(dt_read, clk_read, current_time_millis) ==
    LET a == AvShiftIn(av_pin_state[1], UnwrapOrDefault(dt_read))
        b == AvShiftIn(av_pin_state[2], UnwrapOrDefault(clk_read))
        dir == AvDir(a, b)
        elapsed == current_time_millis - previous_time
        after == AvVelocityAfterStep(velocity, velocity_inc_factor, elapsed,
                                     velocity_action_ms)
    IN  /\ estimator = "angular_velocity.rs"
        /\ av_pin_state' = <<a, b>>
        /\ vel_direction' = dir
        /\ IF dir # "None"
           THEN /\ velocity' = after
                /\ UNCHANGED previous_time
                /\ VelTrackUpdate(current_time_millis, TRUE,
                                  CutAtOne(velocity, velocity_inc_factor, after))
           ELSE /\ previous_time' = current_time_millis
                /\ UNCHANGED velocity
                /\ VelTrackUpdate(current_time_millis, FALSE, "none")
        /\ UNCHANGED <<estimator, velocity_inc_factor, velocity_dec_factor,
                       velocity_action_ms, inner_transition, inner_pos_calc>>

\* angular_velocity.rs: decay_velocity()
AvDecayVelocity ==
    /\ estimator = "angular_velocity.rs"
    /\ velocity' = AvDecay(velocity, velocity_dec_factor)
    /\ VelTrackOther(IF velocity - velocity_dec_factor < 0 THEN "floor" ELSE "none")
    /\ UNCHANGED <<estimator, velocity_inc_factor, velocity_dec_factor, velocity_action_ms,
                   previous_time, av_pin_state, inner_transition, inner_pos_calc,
                   vel_direction>>

\* angular_velocity.rs: set_velocity_inc_factor, set_velocity_dec_factor,
\* set_velocity_action_ms
AvSetVelocityIncFactor(inc_factor) ==
    /\ estimator = "angular_velocity.rs"
    /\ velocity_inc_factor' = inc_factor
    /\ VelTrackOther("none")
    /\ UNCHANGED <<estimator, velocity, velocity_dec_factor, velocity_action_ms,
                   previous_time, av_pin_state, inner_transition, inner_pos_calc,
                   vel_direction>>

AvSetVelocityDecFactor(dec_factor) ==
    /\ estimator = "angular_velocity.rs"
    /\ velocity_dec_factor' = dec_factor
    /\ VelTrackOther("none")
    /\ UNCHANGED <<estimator, velocity, velocity_inc_factor, velocity_action_ms,
                   previous_time, av_pin_state, inner_transition, inner_pos_calc,
                   vel_direction>>

AvSetVelocityActionMs(action_ms) ==
    /\ estimator = "angular_velocity.rs"
    /\ velocity_action_ms' = action_ms
    /\ VelTrackOther("none")
    /\ UNCHANGED <<estimator, velocity, velocity_inc_factor, velocity_dec_factor,
                   previous_time, av_pin_state, inner_transition, inner_pos_calc,
                   vel_direction>>

\* angular.rs: update(current_time)
AngUpdate(dt_read, clk_read, current_time) ==
    LET inner == InnerUpdate(dt_read, clk_read)
        elapsed == current_time - previous_time
        after == AngVelocityAfterStep(velocity, velocity_inc_factor, elapsed,
                                      velocity_action_ms)
    IN  /\ estimator = "angular.rs"
        /\ inner_transition' = inner.transition
        /\ inner_pos_calc' = inner.pos_calc
        /\ vel_direction' = inner.direction
        /\ IF inner.direction # "None"
           THEN /\ velocity' = after
                /\ UNCHANGED previous_time
                /\ VelTrackUpdate(current_time, TRUE,
                                  CutAtOne(velocity, velocity_inc_factor, after))
           ELSE /\ previous_time' = current_time
                /\ UNCHANGED velocity
                /\ VelTrackUpdate(current_time, FALSE, "none")
        /\ UNCHANGED <<estimator, velocity_inc_factor, velocity_dec_factor,
                       velocity_action_ms, av_pin_state>>

\* angular.rs: decay_velocity()
AngDecayVelocity ==
    /\ estimator = "angular.rs"
    /\ velocity' = AngDecay(velocity, velocity_dec_factor)
    /\ VelTrackOther(IF velocity - velocity_dec_factor < 0 THEN "floor" ELSE "none")
    /\ UNCHANGED <<estimator, velocity_inc_factor, velocity_dec_factor, velocity_action_ms,
                   previous_time, av_pin_state, inner_transition, inner_pos_calc,
                   vel_direction>>

\* angular.rs: set_velocity_inc_factor, set_velocity_dec_factor,
\* set_velocity_action_ms
AngSetVelocityIncFactor(inc_factor) ==
    /\ estimator = "angular.rs"
    /\ velocity_inc_factor' = inc_factor
    /\ VelTrackOther("none")
    /\ UNCHANGED <<estimator, velocity, velocity_dec_factor, velocity_action_ms,
                   previous_time, av_pin_state, inner_transition, inner_pos_calc,
                   vel_direction>>

AngSetVelocityDecFactor(dec_factor) ==
    /\ estimator = "angular.rs"
    /\ velocity_dec_factor' = dec_factor
    /\ VelTrackOther("none")
    /\ UNCHANGED <<estimator, velocity, velocity_inc_factor, velocity_action_ms,
                   previous_time, av_pin_state, inner_transition, inner_pos_calc,
                   vel_direction>>

AngSetVelocityActionMs(action_ms) ==
    /\ estimator = "angular.rs"
    /\ velocity_action_ms' = action_ms
    /\ VelTrackOther("none")
    /\ UNCHANGED <<estimator, velocity, velocity_inc_factor, velocity_dec_factor,
                   previous_time, av_pin_state, inner_transition, inner_pos_calc,
                   vel_direction>>

\* lib.rs: RotaryEncoderWithVelocity::update(current_time); the two
\* timestamp_millis() are i64 and their difference is taken as is
LibUpdate(dt_read, clk_read, current_time) ==
    LET inner == InnerUpdate(dt_read, clk_read)
        elapsed == current_time - previous_time
    IN  /\ estimator = "lib.rs"
        /\ inner_transition' = inner.transition
        /\ inner_pos_calc' = inner.pos_calc
        /\ vel_direction' = inner.direction
        /\ IF inner.direction # "None"
           THEN /\ velocity' = LibVelocityAfterStep(velocity, velocity_inc_factor, elapsed,
                                                    velocity_action_ms)
                /\ UNCHANGED previous_time
                /\ VelTrackUpdate(current_time, TRUE, "none")
           ELSE /\ previous_time' = current_time
                /\ UNCHANGED velocity
                /\ VelTrackUpdate(current_time, FALSE, "none")
        /\ UNCHANGED <<estimator, velocity_inc_factor, velocity_dec_factor,
                       velocity_action_ms, av_pin_state>>

\* lib.rs: RotaryEncoderWithVelocity::decay_velocity()
LibDecayVelocity ==
    /\ estimator = "lib.rs"
    /\ velocity' = LibDecay(velocity, velocity_dec_factor)
    /\ VelTrackOther(IF velocity - velocity_dec_factor < -VelScale THEN "floor" ELSE "none")
    /\ UNCHANGED <<estimator, velocity_inc_factor, velocity_dec_factor, velocity_action_ms,
                   previous_time, av_pin_state, inner_transition, inner_pos_calc,
                   vel_direction>>

VelocityNext ==
    /\ \/ \E dt_read \in PinReads, clk_read \in PinReads, current_time \in vel_now .. MaxTime :
              \/ AvUpdate(dt_read, clk_read, current_time)
              \/ AngUpdate(dt_read, clk_read, current_time)
              \/ LibUpdate(dt_read, clk_read, current_time)
       \/ AvDecayVelocity
       \/ AngDecayVelocity
       \/ LibDecayVelocity
       \/ \E inc_factor \in IncFactors :
              AvSetVelocityIncFactor(inc_factor) \/ AngSetVelocityIncFactor(inc_factor)
       \/ \E dec_factor \in DecFactors :
              AvSetVelocityDecFactor(dec_factor) \/ AngSetVelocityDecFactor(dec_factor)
       \/ \E action_ms \in ActionWindows :
              AvSetVelocityActionMs(action_ms) \/ AngSetVelocityActionMs(action_ms)
    /\ UNCHANGED <<overflow_checks, fsVars, qVars, stdVars, dbVars, encVars, rtVars, jitVars,
                   in_use>>

(***************************************************************************)
(* RotaryEncoder of lib.rs on its own, with set_sensitivity                *)
(***************************************************************************)

\* lib.rs: Sensitivity::Low as i8.
SensitivityLow == 4

Sensitivities == {SensitivityDefault, SensitivityLow}

\* RotaryEncoder::new(pin_dt, pin_clk)
EncInit ==
    /\ enc_pos_calc = 0
    /\ enc_transition = 0
    /\ enc_sensitivity = SensitivityDefault
    /\ enc_direction = "None"
    /\ enc_panicked = FALSE
    /\ enc_delta = 0
    /\ enc_seq = 0

\* set_sensitivity(sensitivity)
EncSetSensitivity(sensitivity) ==
    /\ ~enc_panicked
    /\ enc_sensitivity' = sensitivity
    /\ UNCHANGED <<overflow_checks, enc_pos_calc, enc_transition, enc_direction,
                   enc_panicked, enc_delta, enc_seq>>

\* update()
EncUpdate(dt_read, clk_read) ==
    LET dt_state == UnwrapOrDefault(dt_read)
        clk_state == UnwrapOrDefault(clk_read)
        current == InnerCurrent(dt_state, clk_state)
        transition == InnerTransition(enc_transition, current)
        sum == InnerPosCalc(enc_pos_calc, transition)
        pos_calc == WrapI8(sum)
        reached == InnerReaches(pos_calc, enc_sensitivity)
    IN  /\ ~enc_panicked
        /\ enc_transition' = transition
        /\ enc_delta' = sum - enc_pos_calc
        /\ enc_seq' = 1 - enc_seq
        \* self.pos_calc + STATES[index] on i8
        /\ \E outcome \in OverflowOutcomes(OverflowsI8(sum)) :
            /\ overflow_checks' = ObservedChecks(outcome)
            /\ enc_panicked' = (outcome = "panic")
            /\ IF outcome = "panic"
               THEN UNCHANGED <<enc_pos_calc, enc_direction>>
               ELSE /\ enc_pos_calc' = (IF reached THEN 0 ELSE pos_calc)
                    /\ enc_direction' = (IF reached THEN InnerDir(pos_calc, enc_sensitivity)
                                         ELSE "None")
        /\ UNCHANGED enc_sensitivity

EncNext ==
    /\ \/ \E dt_read \in PinReads, clk_read \in PinReads : EncUpdate(dt_read, clk_read)
       \/ /\ \E sensitivity \in Sensitivities : EncSetSensitivity(sensitivity)
    /\ UNCHANGED <<fsVars, qVars, stdVars, dbVars, velVars, rtVars, jitVars,
                   in_use>>

(***************************************************************************)
(* Forward and reverse traversals of the table-based strategies            *)
(* (full_step.rs, quadrature.rs): the updates of one strategy, watched for *)
(* a run of samples s1..sn followed by s(n-1), ..., s1 and the levels s0   *)
(* the lines had before the run.                                           *)
(***************************************************************************)

\* The longest run s1..sn that is watched.
MaxRun == 3

\* The thresholds QuadratureTableMode::new is given while traversals are watched.
RtThresholds == {1, 2, 3}

\* Two samples (dt<<1 | clk) that differ in at most one line.
OneLineChange(a, b) == a = b \/ (a + b # 3)

\* Nothing is watched: the state the watch has in the other specifications.
RtIdle ==
    /\ rt_strategy = "none"
    /\ rt_phase = "off"
    /\ rt_start = <<>>
    /\ rt_s0 = 0
    /\ rt_stack = <<>>
    /\ rt_n = 0
    /\ rt_reported = FALSE
    /\ rt_single = TRUE
    /\ rt_last = 0

\* The watch on a fresh strategy whose lines are at the given levels.
RtInit(strategy, levels) ==
    /\ rt_strategy = strategy
    /\ rt_phase = "before"
    /\ rt_start = <<>>
    /\ rt_s0 = 0
    /\ rt_stack = <<>>
    /\ rt_n = 0
    /\ rt_reported = FALSE
    /\ rt_single = TRUE
    /\ rt_last = levels

\* The watch over one update that was given `sample` from the state
\* `snapshot`: the run begins with this update (begin), goes on, or turns
\* back with it (turn).
RtTrack(sample, reported, snapshot, begin, turn) ==
    LET n == Len(rt_stack)
        below == IF n >= 2 THEN rt_stack[n - 1] ELSE rt_s0
    IN  /\ rt_last' = sample
        /\ rt_single' = (rt_single /\ OneLineChange(rt_last, sample))
        /\ UNCHANGED rt_strategy
        /\ IF rt_phase = "before" /\ ~begin
           THEN UNCHANGED <<rt_phase, rt_start, rt_s0, rt_stack, rt_n, rt_reported>>
           ELSE IF rt_phase = "before"
           THEN /\ rt_phase' = "forward"
                /\ rt_start' = snapshot
                /\ rt_s0' = rt_last
                /\ rt_stack' = <<sample>>
                /\ rt_n' = 1
                /\ rt_reported' = reported
           ELSE IF rt_phase = "forward" /\ ~turn /\ n < MaxRun
           THEN /\ rt_stack' = Append(rt_stack, sample)
                /\ rt_n' = n + 1
                /\ rt_reported' = (rt_reported \/ reported)
                /\ UNCHANGED <<rt_phase, rt_start, rt_s0>>
           ELSE IF /\ \/ rt_phase = "forward" /\ turn
                      \/ rt_phase = "reverse"
                   /\ sample = below
           THEN /\ rt_stack' = SubSeq(rt_stack, 1, n - 1)
                /\ rt_phase' = (IF n = 1 THEN "back" ELSE "reverse")
                /\ rt_reported' = (rt_reported \/ reported)
                /\ UNCHANGED <<rt_start, rt_s0, rt_n>>
           ELSE /\ rt_phase' = "off"
                /\ rt_start' = <<>>
                /\ rt_s0' = 0
                /\ rt_stack' = <<>>
                /\ rt_n' = 0
                /\ rt_reported' = FALSE

RtFullStepUpdate(dt_read, clk_read, begin, turn) ==
    /\ rt_strategy = "full_step"
    /\ FullStepUpdate(dt_read, clk_read)
    /\ RtTrack(PinState(UnwrapOrDefault(dt_read), UnwrapOrDefault(clk_read)),
               fs_direction' # "None", <<fs_table_state>>, begin, turn)
    /\ UNCHANGED <<overflow_checks, qVars>>

RtQuadUpdate(dt_read, clk_read, begin, turn) ==
    /\ rt_strategy = "quadrature"
    /\ QuadUpdate(dt_read, clk_read)
    /\ RtTrack(PinState(UnwrapOrDefault(dt_read), UnwrapOrDefault(clk_read)),
               q_result' # "None", <<q_count, q_prev_state>>, begin, turn)
    /\ UNCHANGED fsVars

RtNext ==
    /\ \E dt_read \in PinReads, clk_read \in PinReads, begin \in BOOLEAN, turn \in BOOLEAN :
           \/ RtFullStepUpdate(dt_read, clk_read, begin, turn)
           \/ RtQuadUpdate(dt_read, clk_read, begin, turn)
    /\ UNCHANGED <<stdVars, dbVars, velVars, encVars, jitVars,
                   in_use>>

\* A bounce in debounced mode is the shortest traversal: one sample that
\* changes the lines and the sample that restores them.  It is watched once
\* an update has read the lines, so that the levels before it are known.
RtDebouncedUpdate(dt_read, clk_read, millis, begin) ==
    /\ rt_strategy = "debounced"
    /\ begin => db_pins # -1
    /\ DebouncedUpdate(dt_read, clk_read, millis)
    /\ RtTrack(PinState(UnwrapOrDefault(dt_read), UnwrapOrDefault(clk_read)),
               ~db_panicked' /\ db_direction' # "None", <<db_table_state>>, begin, TRUE)

\* The updates are given the time of a clock that does not run backwards,
\* and the reads of the lines do not fail.
BounceNext ==
    \/ /\ \E dt_read \in {"low", "high"}, clk_read \in {"low", "high"},
              millis \in db_millis .. MaxMillis, begin \in BOOLEAN :
              RtDebouncedUpdate(dt_read, clk_read, millis, begin)
       /\ UNCHANGED <<fsVars, qVars, stdVars, velVars, encVars, jitVars, in_use>>
    \/ /\ \E duration \in Durations : DebouncedSetDuration(duration)
       /\ UNCHANGED <<overflow_checks, fsVars, qVars, stdVars, velVars, encVars, rtVars,
                      jitVars, in_use>>

(***************************************************************************)
(* Jitter on a fresh QuadratureTableMode: the lines only alternate between *)
(* two adjacent quadrature states.                                         *)
(***************************************************************************)

\* The ordered pairs of quadrature states (dt | clk<<1) that differ in one line.
AdjacentStates ==
    {pair \in (0 .. 3) \X (0 .. 3) : pair[1] # pair[2] /\ pair[1] + pair[2] # 3}

\* No jitter is fed: the state these variables have in the other specifications.
JitIdle ==
    /\ jit_pair = <<0, 1>>
    /\ jit_i = 1

JitInit ==
    /\ jit_pair \in AdjacentStates
    /\ jit_i = 1

\* One update, with the lines at the next state of the alternation.
JitUpdate(dt_read, clk_read) ==
    /\ QuadCurr(UnwrapOrDefault(dt_read), UnwrapOrDefault(clk_read)) = jit_pair[jit_i]
    /\ QuadUpdate(dt_read, clk_read)
    /\ jit_i' = 3 - jit_i
    /\ UNCHANGED jit_pair

JitNext ==
    /\ \E dt_read \in PinReads, clk_read \in PinReads : JitUpdate(dt_read, clk_read)
    /\ UNCHANGED <<fsVars, stdVars, dbVars, velVars, encVars, rtVars, in_use>>

(***************************************************************************)
(* Specifications: one per strategy                                        *)
(***************************************************************************)

FullStepSpecInit ==
    FullStepInit /\ overflow_checks = "unobserved" /\ QuadIdle /\ StandardInit /\ DebouncedInit
    /\ VelocityIdle /\ EncInit /\ RtIdle /\ JitIdle /\ in_use = "none"

SpecFullStep == FullStepSpecInit /\ [][FullStepNext]_vars

QuadSpecInit ==
    QuadInit /\ overflow_checks = "unobserved" /\ FullStepInit /\ StandardInit /\ DebouncedInit
    /\ VelocityIdle /\ EncInit /\ RtIdle /\ JitIdle /\ in_use = "none"

SpecQuad == QuadSpecInit /\ [][QuadNext]_vars

StandardSpecInit ==
    StandardInit /\ overflow_checks = "unobserved" /\ FullStepInit /\ QuadIdle /\ DebouncedInit
    /\ VelocityIdle /\ EncInit /\ RtIdle /\ JitIdle /\ in_use = "none"

SpecStandard == StandardSpecInit /\ [][StandardNext]_vars

DebouncedSpecInit ==
    DebouncedInit /\ overflow_checks = "unobserved" /\ FullStepInit /\ QuadIdle /\ StandardInit
    /\ VelocityIdle /\ EncInit /\ RtIdle /\ JitIdle /\ in_use = "none"

SpecDebounced == DebouncedSpecInit /\ [][DebouncedNext]_vars

\* Debounced mode with the setters of the decay as well.  The lines are
\* read without failures here: a failed read is a low read to update.
DecayNext ==
    \/ /\ \E dt_read \in {"low", "high"}, clk_read \in {"low", "high"},
              millis \in 0 .. MaxMillis :
              DebouncedUpdate(dt_read, clk_read, millis)
       /\ UNCHANGED <<fsVars, qVars, stdVars, velVars, encVars, rtVars, jitVars, in_use>>
    \/ /\ \/ \E dt \in TickDts : DebouncedTick(dt)
          \/ \E duration \in Durations : DebouncedSetDuration(duration)
          \/ \E decay_factor \in DecayFactors : DebouncedSetDecayFactor(decay_factor)
          \/ \E decay_increment \in DecayIncrements :
                 DebouncedSetDecayIncrement(decay_increment)
       /\ UNCHANGED <<overflow_checks, fsVars, qVars, stdVars, velVars, encVars, rtVars,
                      jitVars, in_use>>

DecaySpecInit ==
    DebouncedInit /\ overflow_checks = "unobserved" /\ FullStepInit /\ QuadIdle /\ StandardInit
    /\ VelocityIdle /\ EncInit /\ RtIdle /\ JitIdle /\ in_use = "none"

SpecDecay == DecaySpecInit /\ [][DecayNext]_vars

VelocitySpecInit ==
    VelocityInit /\ overflow_checks = "unobserved" /\ FullStepInit /\ QuadIdle /\ StandardInit
    /\ DebouncedInit /\ EncInit /\ RtIdle /\ JitIdle /\ in_use = "none"

SpecVelocity == VelocitySpecInit /\ [][VelocityNext]_vars

EncSpecInit ==
    EncInit /\ overflow_checks = "unobserved" /\ FullStepInit /\ QuadIdle /\ StandardInit
    /\ DebouncedInit /\ VelocityIdle /\ RtIdle /\ JitIdle /\ in_use = "none"

SpecEnc == EncSpecInit /\ [][EncNext]_vars

\* A fresh full-step mode rests with both lines high (R_START); a fresh
\* quadrature mode has prev_state 0, both lines low.
RtSpecInit ==
    /\ \/ RtInit("full_step", 3) /\ QuadIdle
       \/ RtInit("quadrature", 0) /\ QuadInit /\ q_threshold \in RtThresholds
    /\ FullStepInit /\ overflow_checks = "unobserved" /\ StandardInit /\ DebouncedInit
    /\ VelocityIdle /\ EncInit /\ JitIdle /\ in_use = "none"

SpecRoundTrip == RtSpecInit /\ [][RtNext]_vars

\* A fresh FullStepMode and a fresh AngularVelocityMode on the same lines:
\* every sample is given to the update of both.
PairedNext ==
    /\ \E dt_read \in PinReads, clk_read \in PinReads, current_time \in vel_now .. MaxTime :
           /\ FullStepUpdate(dt_read, clk_read)
           /\ AvUpdate(dt_read, clk_read, current_time)
    /\ UNCHANGED <<overflow_checks, qVars, stdVars, dbVars, encVars, rtVars, jitVars,
                   in_use>>

PairedSpecInit ==
    FullStepInit /\ VelocityIdle /\ overflow_checks = "unobserved" /\ QuadIdle
    /\ StandardInit /\ DebouncedInit /\ EncInit /\ RtIdle /\ JitIdle /\ in_use = "none"

SpecPaired == PairedSpecInit /\ [][PairedNext]_vars

JitSpecInit ==
    JitInit /\ QuadInit /\ overflow_checks = "unobserved" /\ FullStepInit /\ StandardInit
    /\ DebouncedInit /\ VelocityIdle /\ EncInit /\ RtIdle /\ in_use = "none"

SpecJitter == JitSpecInit /\ [][JitNext]_vars

\* A fresh debounced mode; the table takes both lines to be high.
BounceSpecInit ==
    RtInit("debounced", 3) /\ DebouncedInit /\ overflow_checks = "unobserved"
    /\ FullStepInit /\ QuadIdle /\ StandardInit /\ VelocityIdle /\ EncInit /\ JitIdle
    /\ in_use = "none"

SpecBounce == BounceSpecInit /\ [][BounceNext]_vars

\* The strategies that store the direction for direction() to read, one of
\* them in use: FullStepMode, DebouncedMode, AngularVelocityMode and the
\* RotaryEncoder of lib.rs.
StoredNext ==
    \/ in_use = "full_step" /\ FullStepNext
    \/ in_use = "debounced" /\ DebouncedNext
    \/ in_use = "angular_velocity" /\ VelocityNext
    \/ in_use = "lib" /\ EncNext

StoredSpecInit ==
    /\ in_use \in {"full_step", "debounced", "angular_velocity", "lib"}
    /\ FullStepInit /\ DebouncedInit /\ VelocityIdle /\ EncInit
    /\ overflow_checks = "unobserved" /\ QuadIdle /\ StandardInit /\ RtIdle /\ JitIdle

SpecStored == StoredSpecInit /\ [][StoredNext]_vars

\* The two strategies that index a state table, one of them in use.
TablesNext ==
    \/ in_use = "full_step" /\ FullStepNext
    \/ in_use = "debounced" /\ DebouncedNext

TablesSpecInit ==
    /\ in_use \in {"full_step", "debounced"}
    /\ FullStepInit /\ DebouncedInit /\ VelocityIdle /\ EncInit
    /\ overflow_checks = "unobserved" /\ QuadIdle /\ StandardInit /\ RtIdle /\ JitIdle

SpecTables == TablesSpecInit /\ [][TablesNext]_vars

\* The updates of any of the strategies, one of them in use.  What else
\* a strategy offers (ticks, decays, setters) reads no line.
AnyUpdate ==
    \/ in_use = "full_step" /\ FullStepNext
    \/ in_use = "quadrature" /\ QuadNext
    \/ in_use = "standard" /\ StandardNext
    \/ /\ in_use = "debounced"
       /\ \E dt_read \in PinReads, clk_read \in PinReads, millis \in 0 .. MaxMillis :
              DebouncedUpdate(dt_read, clk_read, millis)
       /\ UNCHANGED <<fsVars, qVars, stdVars, velVars, encVars, rtVars, jitVars, in_use>>
    \/ /\ in_use = "velocity"
       /\ \E dt_read \in PinReads, clk_read \in PinReads, current_time \in vel_now .. MaxTime :
              \/ AvUpdate(dt_read, clk_read, current_time)
              \/ AngUpdate(dt_read, clk_read, current_time)
              \/ LibUpdate(dt_read, clk_read, current_time)
       /\ UNCHANGED <<overflow_checks, fsVars, qVars, stdVars, dbVars, encVars, rtVars,
                      jitVars, in_use>>
    \/ in_use = "lib" /\ EncNext

AnySpecInit ==
    /\ in_use \in {"full_step", "quadrature", "standard", "debounced", "velocity", "lib"}
    /\ IF in_use = "quadrature" THEN QuadInit /\ q_threshold \in RtThresholds ELSE QuadIdle
    /\ IF in_use = "velocity" THEN VelocityInit ELSE VelocityIdle
    /\ FullStepInit /\ StandardInit /\ DebouncedInit /\ EncInit
    /\ overflow_checks = "unobserved" /\ RtIdle /\ JitIdle

SpecAny == AnySpecInit /\ [][AnyUpdate]_vars

(***************************************************************************)
(* Helpers for statements about sample histories                           *)
(***************************************************************************)

\* s with every run of equal consecutive samples collapsed to one sample.
RECURSIVE Dedup(_)
Dedup(s) ==
    IF Len(s) <= 1 THEN s
    ELSE IF s[1] = s[2] THEN Dedup(Tail(s))
    ELSE <<s[1]>> \o Dedup(Tail(s))

\* The non-None entries of a sequence of directions, in order.
NonNone(dirs) == SelectSeq(dirs, LAMBDA d : d # "None")

(***************************************************************************)
(* C1                                                                      *)
(***************************************************************************)

\* C1 as stated: from a fresh full-step encoder, the samples 00,01,11,10,00
\* (pin_state = dt<<1 | clk), each possibly repeated, make update report
\* exactly one direction, Clockwise; 00,10,11,01,00 exactly one Anticlockwise.
C1_Original ==
    /\ Dedup(fs_samples) = <<0, 1, 3, 2, 0>> => NonNone(fs_dirs) = <<"Clockwise">>
    /\ Dedup(fs_samples) = <<0, 2, 3, 1, 0>> => NonNone(fs_dirs) = <<"Anticlockwise">>

\* C1 amended: the detent the full-step table decodes rests at 11.  From a
\* fresh encoder the samples 11,01,00,10,11, each possibly repeated, make
\* update report exactly one direction, Clockwise; the mirrored order
\* 11,10,00,01,11 reports exactly one Anticlockwise.
C1_FullDetentReportsOnce ==
    /\ Dedup(fs_samples) = <<3, 1, 0, 2, 3>> => NonNone(fs_dirs) = <<"Clockwise">>
    /\ Dedup(fs_samples) = <<3, 2, 0, 1, 3>> => NonNone(fs_dirs) = <<"Anticlockwise">>

\* A clockwise detent polled with repeated samples has reported once.
C1_Witness ==
    /\ Dedup(fs_samples) = <<3, 1, 0, 2, 3>>
    /\ Len(fs_samples) > 5
    /\ NonNone(fs_dirs) = <<"Clockwise">>
    /\ fs_direction = "Clockwise"

(***************************************************************************)
(* C2, C3, C4                                                              *)
(***************************************************************************)

\* C2 as stated: for a fresh quadrature mode with threshold k >= 2 driven
\* with consecutive valid pulses of one sense, the first k-1 updates return
\* None, the k-th returns the matching direction and leaves count = 0, and
\* k+1 pulses give exactly one non-None result.
C2_ThresholdPulses ==
    (q_threshold >= 2 /\ q_run >= 1) =>
        /\ q_run < q_threshold => q_result = "None"
        /\ q_run = q_threshold => (q_result = SenseDir(q_sense) /\ q_count = 0)
        /\ q_run = q_threshold + 1 => q_reports = 1

\* The valid single-line transitions (prev_state, curr), written out.
CwTransitions == {<<0, 1>>, <<1, 3>>, <<3, 2>>, <<2, 0>>}
CcwTransitions == {<<1, 0>>, <<3, 1>>, <<2, 3>>, <<0, 2>>}

\* C3: with threshold 1 every update returns the sign of its transition:
\* Clockwise on 00->01, 01->11, 11->10, 10->00, Anticlockwise on the reverse
\* transitions, and None with count unchanged on every other one (no change,
\* or a two-line jump such as 00->11).
C3_Threshold1ReportsEveryPulse ==
    (q_threshold = 1 /\ q_last_prev # -1) =>
        LET t == <<q_last_prev, QuadCurr(q_dt, q_clk)>>
        IN  /\ t \in CwTransitions => q_result = "Clockwise"
            /\ t \in CcwTransitions => q_result = "Anticlockwise"
            /\ t \notin (CwTransitions \cup CcwTransitions) =>
                    (q_result = "None" /\ q_count = q_last_count)

\* The last of the four transitions of a clockwise cycle has just been
\* reported, with threshold 1.
C3_Witness ==
    /\ q_threshold = 1
    /\ q_last_prev = 2
    /\ QuadCurr(q_dt, q_clk) = 0
    /\ q_result = "Clockwise"

\* C4: for every threshold >= 1, an update whose sample equals the previous
\* one, or differs from it in both lines, returns None, leaves count
\* unchanged and records the sample as prev_state.
C4_ZeroDeltaKeepsCount ==
    (q_threshold >= 1 /\ q_last_prev # -1) =>
        LET curr == QuadCurr(q_dt, q_clk)
        IN  (curr = q_last_prev \/ curr = 3 - q_last_prev) =>
                /\ q_result = "None"
                /\ q_count = q_last_count
                /\ q_prev_state = curr

\* A two-line jump taken while a count is pending below the threshold.
C4_Witness ==
    /\ q_threshold >= 2
    /\ q_last_prev # -1
    /\ QuadCurr(q_dt, q_clk) = 3 - q_last_prev
    /\ q_count # 0
    /\ q_count = q_last_count
    /\ q_prev_state = QuadCurr(q_dt, q_clk)
    /\ q_result = "None"

(***************************************************************************)
(* C5                                                                      *)
(***************************************************************************)

\* C5: once there is a previous sample, update returns Anticlockwise exactly
\* when DT was high in the previous sample and is low in the current one
\* while CLK is low in both, Clockwise exactly when CLK was high and is low
\* while DT is low in both, and None otherwise, whatever the older contents
\* of the two shift registers are.
C5_EdgeDecoder ==
    std_updates >= 2 =>
        LET dtFalls == std_prev_dt = 1 /\ std_dt = 0
            clkFalls == std_prev_clk = 1 /\ std_clk = 0
            dtLow == std_prev_dt = 0 /\ std_dt = 0
            clkLow == std_prev_clk = 0 /\ std_clk = 0
        IN  /\ std_result = "Anticlockwise" <=> (dtFalls /\ clkLow)
            /\ std_result = "Clockwise" <=> (clkFalls /\ dtLow)
            /\ std_result = "None" <=> ~(dtFalls /\ clkLow) /\ ~(clkFalls /\ dtLow)

\* A falling DT edge with CLK low, decoded with older history in the
\* registers that differs from the constructed one.
C5_Witness ==
    /\ std_updates >= 2
    /\ std_prev_dt = 1 /\ std_dt = 0
    /\ std_prev_clk = 0 /\ std_clk = 0
    /\ std_result = "Anticlockwise"
    /\ std_pin_state[1] \div 4 # 63
    /\ std_pin_state[2] \div 4 # 0

(***************************************************************************)
(* C6, C7                                                                  *)
(***************************************************************************)

\* C6: with non-decreasing timestamps, an update that reports a direction
\* comes strictly more than debounce_duration_millis -
\* floor(debounce_duration_millis * decay) after the previous reporting
\* update, so never at the same timestamp; a raw table hit that comes within
\* that window of the previous report is reported as None.
C6_ReportsOutsideWindow ==
    [][ (db_seq' # db_seq /\ db_mono' /\ db_last_report # -1) =>
            LET elapsed == db_millis' - db_last_report
                window == db_debounce_duration_millis
                            - ((db_debounce_duration_millis * db_decay) \div DecayScale)
            IN  /\ db_direction' # "None" =>
                        (elapsed > window /\ db_millis' # db_last_report)
                /\ (db_raw' # "None" /\ elapsed <= window) => db_direction' = "None"
      ]_vars

\* Under non-decreasing timestamps a second direction has just been
\* reported, with no debounce window left (duration 0).
C6_Witness ==
    /\ db_mono
    /\ db_reports = 2
    /\ db_direction # "None"
    /\ db_millis = db_last_report
    /\ db_debounce_duration_millis = 0

\* C7: a clean detent from R_START, one update per line change, reports at
\* most one direction, of the detent's sense, whatever the timestamps are;
\* and exactly one when its last sample comes more than
\* debounce_duration_millis after the previous report.
C7_DetentReportsOnce ==
    /\ [](det_phase = 4 => (det_reports <= 1 /\ det_dir_ok))
    /\ [][ (det_phase = 3 /\ det_phase' = 4 /\ db_last_report # -1
              /\ db_millis' - db_last_report > db_debounce_duration_millis)
            => det_reports' = 1 ]_vars

\* A clean detent whose first half step fell inside the window and whose
\* second half step, at its last sample, was reported.
C7_Witness ==
    /\ det_phase = 4
    /\ det_reports = 1
    /\ det_dir_ok
    /\ db_reports = 2
    /\ db_millis = db_last_report
    /\ db_direction # "None"

(***************************************************************************)
(* Velocity estimators                                                     *)
(***************************************************************************)

\* C8: in AngularVelocityMode and in the RotaryEncoderWithVelocity of
\* angular.rs the stored velocity is within [0.0, 1.0] after every update,
\* decay_velocity and setter call, for non-negative factors and
\* non-decreasing timestamps.
C8_VelocityWithinUnitRange ==
    estimator \in {"angular_velocity.rs", "angular.rs"} =>
        (velocity >= 0 /\ velocity <= VelScale)

\* An update of the angular.rs estimator has just added the factor to a
\* velocity below 1.0 and cut the sum back to 1.0.
C8_Witness ==
    /\ estimator = "angular.rs"
    /\ vel_clamp = "ceil"
    /\ vel_direction # "None"
    /\ velocity = VelScale

\* C9: velocity() of the RotaryEncoderWithVelocity of lib.rs returns a value
\* within [0.0, 1.0] after any sequence of update and decay_velocity calls.
C9_VelocityReadWithinUnitRange ==
    estimator = "lib.rs" =>
        (LibVelocity(velocity) >= 0 /\ LibVelocity(velocity) <= VelScale)

\* C10: an update that detects a direction adds the increment factor
\* (clamped to 1.0) exactly when the time since the previous update that
\* detected a direction is less than velocity_action_ms, and leaves velocity
\* unchanged otherwise.
C10_IncreaseWithinWindowOfPreviousDetection ==
    [][ (estimator \in {"angular_velocity.rs", "angular.rs"} /\ vel_gap' # -1) =>
            velocity' = (IF vel_gap' < velocity_action_ms
                         THEN (IF velocity + velocity_inc_factor > VelScale
                               THEN VelScale ELSE velocity + velocity_inc_factor)
                         ELSE velocity)
      ]_vars

C12_UpdateWithinI8 ==
    /\ overflow_checks = "unobserved"
    /\ ~q_panicked
    /\ q_result \in Direction
    /\ q_count \in -128 .. 127

(***************************************************************************)
(* RotaryEncoder of lib.rs                                                 *)
(***************************************************************************)

\* C13: under any interleaving of update and set_sensitivity, a stored
\* Clockwise comes from an update whose table delta is +1 and a stored
\* Anticlockwise from an update whose table delta is -1.
C13_DirectionHasSignOfDelta ==
    /\ enc_direction = "Clockwise" => enc_delta = 1
    /\ enc_direction = "Anticlockwise" => enc_delta = -1

(***************************************************************************)
(* Forward and reverse traversals                                          *)
(***************************************************************************)

\* The state a traversal is compared on: the full-step table_state, the
\* quadrature pair (count, prev_state).
RtState ==
    IF rt_strategy = "full_step" THEN <<fs_table_state>> ELSE <<q_count, q_prev_state>>

\* C14 as stated: from any reachable state, a run of samples s1..sn followed
\* by s(n-1), ..., s1, s0 returns table_state, respectively (count,
\* prev_state), to the value before the run.
C14_Original ==
    rt_phase = "back" => RtState = rt_start

\* C14 as it holds: when no update of the traversal reports a direction, the
\* traversal returns (count, prev_state) of the quadrature mode to the value
\* before the run; and, when in addition every sample since construction
\* (both lines high) changed at most one line, it returns the row
\* table_state & 0x0F of the full-step table to the row before the run.
C14_RoundTripWithoutReport ==
    (rt_phase = "back" /\ ~rt_reported) =>
        IF rt_strategy = "full_step"
        THEN rt_single => AndLowNibble(fs_table_state) = AndLowNibble(rt_start[1])
        ELSE <<q_count, q_prev_state>> = rt_start

\* A quadrature traversal of the longest watched run, started with a count
\* pending, has come back without a report.
C14_Witness ==
    /\ rt_phase = "back"
    /\ ~rt_reported
    /\ rt_strategy = "quadrature"
    /\ rt_n >= 3
    /\ rt_start[1] # 0
    /\ <<q_count, q_prev_state>> = rt_start

(***************************************************************************)
(* AngularVelocityMode against FullStepMode                                *)
(***************************************************************************)

\* C15: on every sample sequence, both starting fresh, the direction stored
\* by the update of AngularVelocityMode equals the direction stored by the
\* update of FullStepMode.
C15_SameDirectionAsFullStep ==
    vel_direction = fs_direction

(***************************************************************************)
(* Jitter on the quadrature mode                                           *)
(***************************************************************************)

C17_DirectionIsLastUpdateResult ==
    [][ /\ fs_samples' # fs_samples =>
            fs_direction' = (IF AndDirMask(fs_table_state') = DIR_CW THEN "Clockwise"
                             ELSE IF AndDirMask(fs_table_state') = DIR_CCW
                                  THEN "Anticlockwise"
                             ELSE "None")
        /\ (db_seq' # db_seq /\ ~db_panicked') =>
            /\ db_direction' # "None" =>
                   db_direction' = db_raw' /\ db_last_update_millis' = db_millis'
            /\ (/\ db_raw' # "None"
                /\ db_millis' >= db_last_update_millis
                /\ ~DebounceElapsed(db_millis' - db_last_update_millis,
                                    DebounceWindow(db_debounce_duration_millis, db_decay)))
               => db_direction' = "None"
        /\ vel_seq' # vel_seq =>
            vel_direction' = (IF av_pin_state'[1] = 2 /\ av_pin_state'[2] = 0
                              THEN "Anticlockwise"
                              ELSE IF av_pin_state'[2] = 2 /\ av_pin_state'[1] = 0
                                   THEN "Clockwise"
                              ELSE "None")
        /\ (enc_seq' # enc_seq /\ ~enc_panicked') =>
            enc_direction' = (IF enc_pos_calc + enc_delta' = enc_sensitivity
                              THEN "Clockwise"
                              ELSE IF enc_pos_calc + enc_delta' = -enc_sensitivity
                                   THEN "Anticlockwise"
                              ELSE "None") ]_vars

\* A debounced update whose detection was suppressed, after an earlier step
\* was reported: the direction read is None.
C17_Witness ==
    /\ in_use = "debounced"
    /\ db_reports >= 1
    /\ db_raw # "None"
    /\ db_direction = "None"
    /\ ~db_panicked


\* C18: in every strategy an update in which the read of a line fails has
\* exactly the outcomes (next state and Direction) of the update in which
\* that line reads low, whatever the other line reads and whatever the
\* state: no outcome of the one is not an outcome of the other.
C18_FailedReadIsLowRead ==
    /\ in_use = "full_step" =>
           \A r \in PinReads :
               /\ ~ENABLED (FullStepUpdate("err", r) /\ ~FullStepUpdate("low", r))
               /\ ~ENABLED (FullStepUpdate("low", r) /\ ~FullStepUpdate("err", r))
               /\ ~ENABLED (FullStepUpdate(r, "err") /\ ~FullStepUpdate(r, "low"))
               /\ ~ENABLED (FullStepUpdate(r, "low") /\ ~FullStepUpdate(r, "err"))
    /\ in_use = "quadrature" =>
           \A r \in PinReads :
               /\ ~ENABLED (QuadUpdate("err", r) /\ ~QuadUpdate("low", r))
               /\ ~ENABLED (QuadUpdate("low", r) /\ ~QuadUpdate("err", r))
               /\ ~ENABLED (QuadUpdate(r, "err") /\ ~QuadUpdate(r, "low"))
               /\ ~ENABLED (QuadUpdate(r, "low") /\ ~QuadUpdate(r, "err"))
    /\ in_use = "standard" =>
           \A r \in PinReads :
               /\ ~ENABLED (StandardUpdate("err", r) /\ ~StandardUpdate("low", r))
               /\ ~ENABLED (StandardUpdate("low", r) /\ ~StandardUpdate("err", r))
               /\ ~ENABLED (StandardUpdate(r, "err") /\ ~StandardUpdate(r, "low"))
               /\ ~ENABLED (StandardUpdate(r, "low") /\ ~StandardUpdate(r, "err"))
    /\ in_use = "debounced" =>
           \A r \in PinReads, t \in 0 .. MaxMillis :
               /\ ~ENABLED (DebouncedUpdate("err", r, t) /\ ~DebouncedUpdate("low", r, t))
               /\ ~ENABLED (DebouncedUpdate("low", r, t) /\ ~DebouncedUpdate("err", r, t))
               /\ ~ENABLED (DebouncedUpdate(r, "err", t) /\ ~DebouncedUpdate(r, "low", t))
               /\ ~ENABLED (DebouncedUpdate(r, "low", t) /\ ~DebouncedUpdate(r, "err", t))
    /\ in_use = "lib" =>
           \A r \in PinReads :
               /\ ~ENABLED (EncUpdate("err", r) /\ ~EncUpdate("low", r))
               /\ ~ENABLED (EncUpdate("low", r) /\ ~EncUpdate("err", r))
               /\ ~ENABLED (EncUpdate(r, "err") /\ ~EncUpdate(r, "low"))
               /\ ~ENABLED (EncUpdate(r, "low") /\ ~EncUpdate(r, "err"))
    /\ (in_use = "velocity" /\ estimator = "angular_velocity.rs") =>
           \A r \in PinReads, t \in vel_now .. MaxTime :
               /\ ~ENABLED (AvUpdate("err", r, t) /\ ~AvUpdate("low", r, t))
               /\ ~ENABLED (AvUpdate("low", r, t) /\ ~AvUpdate("err", r, t))
               /\ ~ENABLED (AvUpdate(r, "err", t) /\ ~AvUpdate(r, "low", t))
               /\ ~ENABLED (AvUpdate(r, "low", t) /\ ~AvUpdate(r, "err", t))
    /\ (in_use = "velocity" /\ estimator = "angular.rs") =>
           \A r \in PinReads, t \in vel_now .. MaxTime :
               /\ ~ENABLED (AngUpdate("err", r, t) /\ ~AngUpdate("low", r, t))
               /\ ~ENABLED (AngUpdate("low", r, t) /\ ~AngUpdate("err", r, t))
               /\ ~ENABLED (AngUpdate(r, "err", t) /\ ~AngUpdate(r, "low", t))
               /\ ~ENABLED (AngUpdate(r, "low", t) /\ ~AngUpdate(r, "err", t))
    /\ (in_use = "velocity" /\ estimator = "lib.rs") =>
           \A r \in PinReads, t \in vel_now .. MaxTime :
               /\ ~ENABLED (LibUpdate("err", r, t) /\ ~LibUpdate("low", r, t))
               /\ ~ENABLED (LibUpdate("low", r, t) /\ ~LibUpdate("err", r, t))
               /\ ~ENABLED (LibUpdate(r, "err", t) /\ ~LibUpdate(r, "low", t))
               /\ ~ENABLED (LibUpdate(r, "low", t) /\ ~LibUpdate(r, "err", t))

\* A full-step instance whose last update read dt low and clk high: the
\* update in which the read of clk fails moves the table, the one in which
\* clk reads high again leaves it where it is.
C18_Witness ==
    /\ in_use = "full_step"
    /\ fs_samples # <<>>
    /\ fs_samples[Len(fs_samples)] = 1
    /\ ENABLED (FullStepUpdate("low", "err") /\ fs_table_state' # fs_table_state)
    /\ ENABLED (FullStepUpdate("low", "high") /\ fs_table_state' = fs_table_state)


\* C19 as stated: the entry an update takes carries a direction flag exactly
\* when it leads into a FINAL row from the NEXT row of the same sense (the
\* clockwise flag into F_CW_FINAL, the counter-clockwise one into
\* F_CCW_FINAL).
C19_Original ==
    [][ fs_samples' # fs_samples =>
            AndDirMask(fs_table_state') =
                (IF /\ AndLowNibble(fs_table_state') = F_CW_FINAL
                    /\ AndLowNibble(fs_table_state) = F_CW_NEXT
                 THEN DIR_CW
                 ELSE IF /\ AndLowNibble(fs_table_state') = F_CCW_FINAL
                         /\ AndLowNibble(fs_table_state) = F_CCW_NEXT
                      THEN DIR_CCW
                 ELSE 0) ]_vars

\* C19: the entry an update takes carries a direction flag exactly when it
\* leads out of a FINAL row on the sample 11 (both lines high), and then it
\* is R_START with the flag of that row's sense: 0x10 from F_CW_FINAL, 0x20
\* from F_CCW_FINAL.  Every other entry has both flag bits clear.
C19_FlagOnLeavingFinal ==
    [][ fs_samples' # fs_samples =>
            fs_table_state' =
                (IF /\ AndLowNibble(fs_table_state) = F_CW_FINAL
                    /\ fs_samples'[Len(fs_samples')] = 3
                 THEN R_START + DIR_CW
                 ELSE IF /\ AndLowNibble(fs_table_state) = F_CCW_FINAL
                         /\ fs_samples'[Len(fs_samples')] = 3
                      THEN R_START + DIR_CCW
                 ELSE AndLowNibble(fs_table_state')) ]_vars

\* An update has taken the flagged entry of the F_CCW_FINAL row, at the end
\* of a counter-clockwise detent.
C19_Witness ==
    /\ Len(fs_samples) >= 4
    /\ SubSeq(fs_samples, Len(fs_samples) - 3, Len(fs_samples)) = <<2, 0, 1, 3>>
    /\ fs_table_state = R_START + DIR_CCW


\* C20: from each of the 7 rows of the full-step table, an update whose
\* sample differs in both lines from the levels the row stands for (R_START
\* 11, CW_BEGIN 01, CW_NEXT 00, CW_FINAL 10, CCW_BEGIN 10, CCW_NEXT 00,
\* CCW_FINAL 01) leads to R_START with no direction flag, and the direction
\* it stores is None.
C20_TwoLineJumpToStart ==
    [][ LET row == AndLowNibble(fs_table_state)
            levels == IF row = R_START THEN 3
                      ELSE IF row \in {F_CW_BEGIN, F_CCW_FINAL} THEN 1
                      ELSE IF row \in {F_CW_NEXT, F_CCW_NEXT} THEN 0
                      ELSE 2
        IN  (/\ fs_samples' # fs_samples
             /\ fs_samples'[Len(fs_samples')] = 3 - levels)
            => (fs_table_state' = R_START /\ fs_direction' = "None") ]_vars

\* Half way through a clockwise detent (01, 00) both lines are sampled high:
\* the table is back in R_START and no direction is stored.
C20_Witness ==
    /\ fs_samples = <<1, 0, 3>>
    /\ fs_table_state = R_START
    /\ fs_direction = "None"


\* C21: in debounced mode last_update_millis is the timestamp of the most
\* recent update that reported a direction, and 0 before the first one.  An
\* update that reports a direction sets it to its timestamp, an update that
\* reports None changes neither it nor decay, and tick and the setters leave
\* it alone.
C21_LastUpdateIsLastReport ==
    [][ /\ (db_seq' # db_seq /\ ~db_panicked' /\ db_direction' # "None")
            => db_last_update_millis' = db_millis'
        /\ (db_seq' # db_seq /\ ~db_panicked' /\ db_direction' = "None")
            => UNCHANGED <<db_last_update_millis, db_decay>>
        /\ db_seq' = db_seq => UNCHANGED db_last_update_millis
        /\ db_last_update_millis' = (IF db_last_report' = -1 THEN 0 ELSE db_last_report')
      ]_vars

\* After a reported step, a later update whose hit was suppressed has left
\* last_update_millis at the time of that step.
C21_Witness ==
    /\ db_reports >= 1
    /\ db_raw # "None"
    /\ db_direction = "None"
    /\ db_millis > db_last_update_millis
    /\ db_last_update_millis > 0
    /\ db_decay > 0
    /\ ~db_panicked


\* C22: in debounced mode, with non-negative dt, decay_factor and
\* decay_increment, decay stays within [0, 1].  An update that reports a
\* direction raises it by decay_increment, capped at 1.0, and no other update
\* changes it; a tick lowers it by decay_factor * dt, floored at 0.0, and the
\* setters leave it alone.  The quiet window debounce_duration_millis -
\* floor(debounce_duration_millis * decay) lies between 0 and
\* debounce_duration_millis, so its unsigned subtraction does not underflow.
C22_DecayWithinUnitRange ==
    [][ /\ db_decay' \in 0 .. DecayScale
        /\ (db_seq' # db_seq /\ ~db_panicked') =>
               db_decay' = (IF db_direction' = "None" THEN db_decay
                            ELSE IF db_decay + db_decay_increment > DecayScale
                                 THEN DecayScale
                            ELSE db_decay + db_decay_increment)
        /\ db_seq' = db_seq =>
               \E dt \in TickDts :
                   db_decay' = (IF db_decay - db_decay_factor * dt < 0 THEN 0
                                ELSE db_decay - db_decay_factor * dt)
        /\ LET cut == (db_debounce_duration_millis' * db_decay') \div DecayScale
           IN  /\ cut <= db_debounce_duration_millis'
               /\ db_debounce_duration_millis' - cut \in 0 .. db_debounce_duration_millis'
      ]_vars

\* A reported step has cut decay back to 1.0: the increment of 0.7 on top of
\* more than 0.3.
C22_Witness ==
    /\ db_decay = DecayScale
    /\ db_decay_increment = 7
    /\ db_direction # "None"
    /\ db_reports >= 2
    /\ ~db_panicked


(***************************************************************************)
(* C23                                                                     *)
(***************************************************************************)

\* The quarter of a quadrature cycle the lines move from levels a to levels
\* b (dt<<1 | clk): +1 along 11, 01, 00, 10, 11, -1 against it, 0 otherwise.
QuarterTurn(a, b) ==
    IF <<a, b>> \in {<<3, 1>>, <<1, 0>>, <<0, 2>>, <<2, 3>>} THEN 1
    ELSE IF <<b, a>> \in {<<3, 1>>, <<1, 0>>, <<0, 2>>, <<2, 3>>} THEN -1
    ELSE 0

\* The quarter turns of the samples s, the lines being at prev before them.
RECURSIVE QuarterTurns(_, _)
QuarterTurns(prev, s) ==
    IF s = <<>> THEN 0 ELSE QuarterTurn(prev, s[1]) + QuarterTurns(s[1], Tail(s))

\* Each sample of s differs in at most one line from the one before it, the
\* lines being at prev before the first.
RECURSIVE SingleLineChanges(_, _)
SingleLineChanges(prev, s) ==
    \/ s = <<>>
    \/ /\ prev = s[1] \/ prev + s[1] # 3
       /\ SingleLineChanges(s[1], Tail(s))

\* The number of reports of the direction d in dirs.
Reports(dirs, d) == Len(SelectSeq(dirs, LAMBDA x : x = d))

\* C23: a fresh full-step mode with both lines high, given samples that each
\* change at most one line and that end with both lines high, has reported
\* Clockwise minus Anticlockwise as often as the lines went round the cycle
\* 11, 01, 00, 10, 11, reverse cycles counted negatively: four quarter
\* turns for each report.  Bounce inside a detent adds no report.
C23_ReportsAreNetCycles ==
    (/\ fs_samples # <<>>
     /\ fs_samples[Len(fs_samples)] = 3
     /\ SingleLineChanges(3, fs_samples))
    => 4 * (Reports(fs_dirs, "Clockwise") - Reports(fs_dirs, "Anticlockwise"))
           = QuarterTurns(3, fs_samples)

\* A counter-clockwise cycle with a bounce between 10 and 00 in it has been
\* reported once.
C23_Witness ==
    /\ fs_samples = <<2, 0, 2, 0, 1, 1, 3>>
    /\ QuarterTurns(3, fs_samples) = -4
    /\ Reports(fs_dirs, "Anticlockwise") = 1
    /\ Reports(fs_dirs, "Clockwise") = 0


\* C24: in debounced mode a bounce, a sample that changes one line followed
\* by the sample that restores the levels, reports no direction, whatever
\* the timestamps and whatever went before, an accepted step that reset
\* table_state to 0 included.  In particular the update that is given the
\* restoring sample, with the lines back where they were two updates
\* earlier, stores no direction.
C24_BounceNeverReports ==
    [][ (/\ rt_phase = "forward"
         /\ rt_phase' = "back"
         /\ rt_stack[1] # rt_s0
         /\ OneLineChange(rt_s0, rt_stack[1]))
        => db_direction' = "None" ]_vars


\* C25: for every threshold QuadratureTableMode::new accepts, the direction
\* an update returns has the sign of the count after the delta was added:
\* Clockwise only when that count is above 0, Anticlockwise only when it is
\* below 0.  An update with delta 0 on a count of 0 returns None.
C25_DirectionHasSignOfCount ==
    q_last_prev # -1 =>
        LET delta == QuadDelta(q_last_prev, QuadCurr(q_dt, q_clk))
            count == q_last_count + delta
        IN  /\ q_result = "Clockwise" => count > 0
            /\ q_result = "Anticlockwise" => count < 0
            /\ (q_last_count = 0 /\ delta = 0) => q_result \in {"None", "Panic"}


\* C26: the first update of a freshly constructed StandardMode returns None
\* for every sample (dt, clk): the constructed shift registers do not form
\* an edge with one real sample.
C26_FirstUpdateReportsNothing ==
    std_updates = 1 => std_result = "None"


\* C27: in full-step and debounced mode the row index the next update will
\* use, table_state & 0x0F, is a row of the table in use (below 7 for the
\* full-step table, below 6 for the half-step table) in every reachable
\* state, the debounced reset to 0 included, and the column index
\* dt<<1 | clk of every update is below 4.
C27_TableIndicesInBounds ==
    /\ AndLowNibble(fs_table_state) \in 0 .. Len(STATE_TABLE_FULL_STEPS) - 1
    /\ Len(STATE_TABLE_FULL_STEPS) = 7
    /\ \A i \in 1 .. Len(fs_samples) : fs_samples[i] \in 0 .. 3
    /\ AndLowNibble(db_table_state) \in 0 .. Len(STATE_TABLE_HALF_STEPS) - 1
    /\ Len(STATE_TABLE_HALF_STEPS) = 6
    /\ db_pins \in -1 .. 3

\* A debounced update has reported a step with both lines low and reset
\* table_state to 0.
C27_Witness ==
    /\ in_use = "debounced"
    /\ db_reports >= 1
    /\ db_direction # "None"
    /\ db_table_state = 0
    /\ db_pins = 0
    /\ ~db_panicked

=============================================================================
